---- MODULE Spec2Model ----
(***************************************************************************)
(* Model of the recommender pipeline of the repository:                    *)
(*   src/src/recommender/train.py      predict_and_rank                    *)
(*   src/src/recommender/features.py   build_feature_label_table           *)
(*   src/src/recommender/candidates.py generate_candidates and friends     *)
(*                                                                         *)
(* Tables are polars frames.  A frame whose rows may repeat is modelled as *)
(* a bag: a function from rows to their multiplicity (>= 1).  A polars     *)
(* null is the value Null; an optional Python argument is <<>> (None) or   *)
(* <<v>>.  Floating point quotients are kept as reduced fractions <<n,d>>. *)
(***************************************************************************)
EXTENDS Integers, Sequences, FiniteSets, Bags, TLC

VARIABLES
    pc,            \* which call has returned
    scored,        \* predict_and_rank: rows (customer_id, item_id, score)
    top_k,         \* predict_and_rank: the top_k argument, <<>> is None
    ranked,        \* predict_and_rank: the returned frame, a sequence of rows
    transactions,  \* the transactions frame: rows (customer_id, item_id, created_date)
    items,         \* the items frame, one row per item: item_id -> attributes
    windows,       \* begin_hist, end_hist, begin_recent, end_recent
    candidates,    \* build_feature_label_table: the candidates argument
    result,        \* build_feature_label_table: the returned frame, a bag of rows
    other_transactions,  \* the transactions frame of a second call
    other_result,        \* the frame the second call returned
    users,         \* the users frame, one row per customer: the customer_ids
    cand_call,     \* the arguments of the candidate generator that was called
    cand_out,      \* the candidate frame it returned, a bag of (customer_id, item_id)
    cooc_out,      \* the frame build_item_cooccurrence returned, a bag of rows
    ground_truth,  \* the evaluators: the ground truth frame, a bag of (customer_id, item_id)
    metrics,       \* the evaluators: the returned metrics
    runs,          \* the pipeline scripts: the state of each run of a script
    clock,         \* the pipeline scripts: the wall clock, in ticks of half a second
    files,         \* the pipeline scripts: the files under outputs/, path -> content
    data           \* the pipeline scripts: the version of the input tables and windows

vars == <<pc, scored, top_k, ranked, transactions, items, windows, candidates, result,
          other_transactions, other_result, users, cand_call, cand_out, cooc_out,
          ground_truth, metrics, runs, clock, files, data>>

----------------------------------------------------------------------------
(* Bounds of the model.                                                    *)

NumCustomers == 2
NumItems == 2
MaxScore == 2
MaxRows == 3
MaxTopK == 2
MaxTxns == 2
MaxDay == 4
MaxCandidates == 3
MaxCooc == 2
NumBrands == 2
NumAgeGroups == 1
NumCategories == 2

Customers == 1..NumCustomers
Items == 1..NumItems
Scores == 1..MaxScore

Days == 0..MaxDay

None == <<>>
Some(v) == <<v>>

Min(a, b) == IF a <= b THEN a ELSE b

\* A polars null in a nullable column; a value v of such a column is <<v>>.
Null == <<>>

----------------------------------------------------------------------------
(* train.py: predict_and_rank                                              *)

\* The (customer_id, item_id) pairs of a frame.
PairsOf(rows) == {<<r.customer_id, r.item_id>> : r \in rows}

\* The rows that sort([user_col, "score"], descending=[False, True]) can put
\* first: smallest customer_id and, for that customer, largest score.
SortsFirst(rows) ==
    {r \in rows : \A q \in rows :
        \/ r.customer_id < q.customer_id
        \/ r.customer_id = q.customer_id /\ r.score >= q.score}

RECURSIVE SortByUserScore(_)
\* result.sort([user_col, "score"], descending=[False, True]): every order of
\* the rows that is ascending in customer_id and, within a customer,
\* descending in score.  The sort is not stable, rows that tie in both keys
\* come out in any order.
SortByUserScore(rows) ==
    IF rows = {} THEN {<<>>}
    ELSE UNION {{<<r>> \o s : s \in SortByUserScore(rows \ {r})} : r \in SortsFirst(rows)}

\* A mutant of DenseRankOver: the window clause over(user_col) is lost and the
\* rank is taken over the whole frame.
DenseRankGlobal(rows, r) ==
    Cardinality({q.item_id : q \in {q \in rows : q.item_id <= r.item_id}})

\* pl.col(item_col).rank("dense").over(user_col): the dense rank of the VALUE
\* of item_id among the item_id values of the rows of the same customer
\* (ascending, 1-based, equal values share a rank).
DenseRankOver(rows, r) ==
    Cardinality({q.item_id : q \in {q \in rows :
                    /\ q.customer_id = r.customer_id
                    /\ q.item_id <= r.item_id}})

\* with_columns(rank) applied to the sorted frame s; rows is the set of rows.
WithRank(s, rows) ==
    [i \in DOMAIN s |->
        [customer_id |-> s[i].customer_id, item_id |-> s[i].item_id,
         score |-> s[i].score, rank |-> DenseRankOver(rows, s[i])]]

\* if top_k is not None: result.filter(pl.col("rank") <= top_k); filter keeps
\* the order of the rows it lets through.
FilterTopK(s, k) ==
    IF k = None THEN s
    ELSE LET Keep(r) == r.rank <= k[1] IN SelectSeq(s, Keep)

\* The frames predict_and_rank can return for the scored rows and top_k.
predict_and_rank(rows, k) ==
    {FilterTopK(WithRank(s, rows), k) : s \in SortByUserScore(rows)}

RowsOfSeq(s) == {s[i] : i \in DOMAIN s}


----------------------------------------------------------------------------
(* features.py: build_feature_label_table and its helpers                  *)

\* fill_null(v): the value of a nullable cell, v where the cell is null.
FillNull(cell, v) == IF cell = Null THEN v ELSE cell[1]

RECURSIVE GCD(_, _)
GCD(a, b) == IF b = 0 THEN a ELSE GCD(b, a % b)

\* The float n / d (d > 0), kept exact as a reduced fraction.
Frac(n, d) == LET g == GCD(n, d) IN <<n \div g, d \div g>>

RECURSIVE SumOver(_, _)
\* sum of f[x] over the finite set S
SumOver(S, f) ==
    IF S = {} THEN 0
    ELSE LET x == CHOOSE y \in S : TRUE IN f[x] + SumOver(S \ {x}, f)

\* transactions.filter(created_date >= begin & created_date < end)
FilterWindow(tx, begin, end) ==
    LET InWindow(t) == t.created_date >= begin /\ t.created_date < end
    IN  SelectSeq(tx, InWindow)

\* features.py 424-427
HistTxns(tx, w) == FilterWindow(tx, w.begin_hist, w.end_hist)

\* A mutant of RecentTxns: the end of the label window is taken inclusive.
RecentTxnsEndInclusive(tx, w) == FilterWindow(tx, w.begin_recent, w.end_recent + 1)

\* features.py 430-433
RecentTxns(tx, w) == FilterWindow(tx, w.begin_recent, w.end_recent)

\* frame.select(["customer_id", "item_id"]).unique(), as a set of pairs
UniquePairs(tx) == {<<tx[k].customer_id, tx[k].item_id>> : k \in DOMAIN tx}

CustomersIn(tx) == {tx[k].customer_id : k \in DOMAIN tx}
ItemsIn(tx) == {tx[k].item_id : k \in DOMAIN tx}
TxnsOf(tx, c) == LET Mine(t) == t.customer_id = c IN SelectSeq(tx, Mine)

\* created_date.dt.weekday(): ISO weekday 1..7, day 0 of the model a Monday.
Weekday(d) == (d % 7) + 1

\* The attributes of an item without a row in the items frame: every left
\* join on item_id gives nulls.
NoItemRow == [brand |-> Null, age_group |-> Null, category |-> Null]

\* hist.join(items.select(item_id, attr), on="item_id", how="left"): the
\* attribute of the purchased item, null when the item has no items row.
AttrOf(it, i, a) == it[i][a]

\* group_by([customer_id, attr]).agg(pl.count()) joined back on
\* [customer_id, attr] with how="left": the count of the customer's
\* historical rows with that attribute value.  Join keys that are null match
\* nothing, and a key with no group gives null.
AttrCountJoin(hist, it, c, a, v) ==
    LET n == Cardinality({k \in DOMAIN hist :
                    hist[k].customer_id = c /\ AttrOf(it, hist[k].item_id, a) = v})
    IN  IF v = Null \/ n = 0 THEN Null ELSE Some(n)

\* _build_candidate_features: X1..X3 of the candidate pair (c, i).
CandidateFeatures(hist, it, c, i) ==
    [X1 |-> FillNull(AttrCountJoin(hist, it, c, "brand", AttrOf(it, i, "brand")), 0),
     X2 |-> FillNull(AttrCountJoin(hist, it, c, "age_group", AttrOf(it, i, "age_group")), 0),
     X3 |-> FillNull(AttrCountJoin(hist, it, c, "category", AttrOf(it, i, "category")), 0)]

\* _compute_recency_features: end_hist minus the last purchase date, in days
LastPurchase(h) ==
    CHOOSE d \in {h[k].created_date : k \in DOMAIN h} :
        \A k \in DOMAIN h : h[k].created_date <= d
X4_days_since_last_purchase(h, end_hist) == end_hist - LastPurchase(h)

DaysActive(h) == Cardinality({h[k].created_date : k \in DOMAIN h})
Clip1(n) == IF n < 1 THEN 1 ELSE n

\* _compute_frequency_features
X5_purchase_frequency(h) == Frac(Len(h), Clip1(DaysActive(h)))
PowerUserPurchases == 13
X6_is_power_user(h) == IF Len(h) > PowerUserPurchases THEN 1 ELSE 0

\* _compute_monetary_features
X7_avg_items_per_purchase(h) == Frac(Cardinality(ItemsIn(h)), Clip1(DaysActive(h)))

\* _compute_brand_loyalty_features: the largest group of group_by(brand), the
\* null brand being a group like any other.
BrandsOf(h, it) == {AttrOf(it, h[k].item_id, "brand") : k \in DOMAIN h}
BrandCount(h, it, b) ==
    Cardinality({k \in DOMAIN h : AttrOf(it, h[k].item_id, "brand") = b})
TopBrandCount(h, it) ==
    CHOOSE n \in {BrandCount(h, it, b) : b \in BrandsOf(h, it)} :
        \A b \in BrandsOf(h, it) : BrandCount(h, it, b) <= n
X8_top_brand_ratio(h, it) == Frac(TopBrandCount(h, it), Len(h))
X9_brand_diversity(h, it) == Cardinality(BrandsOf(h, it))

\* _compute_category_diversity_features
CategoriesOf(h, it) == {AttrOf(it, h[k].item_id, "category") : k \in DOMAIN h}
X10_category_diversity_score(h, it) == Frac(Cardinality(CategoriesOf(h, it)), Len(h))

\* _compute_temporal_features: sort by day_count descending, first row of the
\* customer.  Neither group_by nor sort fixes the order of weekdays with
\* equal counts, so every weekday with the largest count can come first.
DayCount(h, wd) == Cardinality({k \in DOMAIN h : Weekday(h[k].created_date) = wd})
WeekdaysOf(h) == {Weekday(h[k].created_date) : k \in DOMAIN h}
X11_purchase_day_modes(h) ==
    {wd \in WeekdaysOf(h) : \A o \in WeekdaysOf(h) : DayCount(h, o) <= DayCount(h, wd)}

\* _compute_cold_start_features
NewCustomerPurchases == 3
\* A mutant of X12_is_new_customer: the threshold is taken inclusive.
X12WithInclusiveThreshold(h) == IF Len(h) <= NewCustomerPurchases THEN 1 ELSE 0
X12_is_new_customer(h) == IF Len(h) < NewCustomerPurchases THEN 1 ELSE 0
ItemPopularity(hist, i) == Cardinality({k \in DOMAIN hist : hist[k].item_id = i})
X13_avg_item_popularity(hist, h) ==
    Frac(SumOver(DOMAIN h, [k \in DOMAIN h |-> ItemPopularity(hist, h[k].item_id)]), Len(h))

\* The row of customer_features for customer c, who has historical rows;
\* mode is the weekday _compute_temporal_features came out with.
CustomerFeatures(hist, it, w, c, mode) ==
    LET h == TxnsOf(hist, c)
    IN  [X4 |-> X4_days_since_last_purchase(h, w.end_hist),
         X5 |-> X5_purchase_frequency(h),
         X6 |-> X6_is_power_user(h),
         X7 |-> X7_avg_items_per_purchase(h),
         X8 |-> X8_top_brand_ratio(h, it),
         X9 |-> X9_brand_diversity(h, it),
         X10 |-> X10_category_diversity_score(h, it),
         X11 |-> mode,
         X12 |-> X12_is_new_customer(h),
         X13 |-> X13_avg_item_popularity(hist, h)]

\* features.join(customer_features, on="customer_id", how="left") followed by
\* fill_null(0) on X4..X13: a customer without historical rows has no
\* customer_features row, every cell is null and becomes 0.
ZeroCustomerFeatures ==
    [X4 |-> 0, X5 |-> Frac(0, 1), X6 |-> 0, X7 |-> Frac(0, 1), X8 |-> Frac(0, 1),
     X9 |-> 0, X10 |-> Frac(0, 1), X11 |-> 0, X12 |-> 0, X13 |-> Frac(0, 1)]

JoinCustomerFeatures(hist, it, w, c, modes) ==
    IF c \in CustomersIn(hist)
    THEN CustomerFeatures(hist, it, w, c, modes[c])
    ELSE ZeroCustomerFeatures

\* _build_labels_for_features: the unique pairs of the label window, Y = 1
Labels(recent) == UniquePairs(recent)

\* A mutant of LabelOf: the missing label is filled with 1.
LabelFilledWithOne(labels, c, i) == FillNull(IF <<c, i>> \in labels THEN Some(1) ELSE Null, 1)

\* result = features_all.join(labels, how="left").with_columns(Y.fill_null(0))
LabelOf(labels, c, i) == FillNull(IF <<c, i>> \in labels THEN Some(1) ELSE Null, 0)

\* A mutant of FeatureRow: customer_features is joined on the pair, so a row
\* gets the customer's values only if the customer bought the row's item.
FeatureRowJoinedOnPair(hist, recent, it, w, c, i, modes) ==
    LET f == CandidateFeatures(hist, it, c, i)
        g == IF <<c, i>> \in UniquePairs(hist)
             THEN CustomerFeatures(hist, it, w, c, modes[c])
             ELSE ZeroCustomerFeatures
    IN  [customer_id |-> c, item_id |-> i,
         X1 |-> f.X1, X2 |-> f.X2, X3 |-> f.X3,
         X4 |-> g.X4, X5 |-> g.X5, X6 |-> g.X6, X7 |-> g.X7, X8 |-> g.X8,
         X9 |-> g.X9, X10 |-> g.X10, X11 |-> g.X11, X12 |-> g.X12, X13 |-> g.X13,
         Y |-> LabelOf(Labels(recent), c, i)]

\* One output row of build_feature_label_table.
FeatureRow(hist, recent, it, w, c, i, modes) ==
    LET f == CandidateFeatures(hist, it, c, i)
        g == JoinCustomerFeatures(hist, it, w, c, modes)
    IN  [customer_id |-> c, item_id |-> i,
         X1 |-> f.X1, X2 |-> f.X2, X3 |-> f.X3,
         X4 |-> g.X4, X5 |-> g.X5, X6 |-> g.X6, X7 |-> g.X7, X8 |-> g.X8,
         X9 |-> g.X9, X10 |-> g.X10, X11 |-> g.X11, X12 |-> g.X12, X13 |-> g.X13,
         Y |-> LabelOf(Labels(recent), c, i)]

\* The weekday each customer of the historical window can come out with.
ModeChoices(hist) ==
    {m \in [CustomersIn(hist) -> 1..7] :
        \A c \in CustomersIn(hist) : m[c] \in X11_purchase_day_modes(TxnsOf(hist, c))}


\* .sort("item_count", descending=True).head(n): any n of the most purchased
\* items (all of them when there are at most n); items with equal counts
\* come in any order.
TopItemsChoices(tx, n) ==
    {T \in SUBSET ItemsIn(tx) :
        /\ Cardinality(T) = Min(n, Cardinality(ItemsIn(tx)))
        /\ \A i \in T : \A j \in ItemsIn(tx) \ T :
              ItemPopularity(tx, i) >= ItemPopularity(tx, j)}

\* pl.col("item_id").rank("random").over("customer_id") <= cap on a bag of
\* (customer_id, item_id) rows: the rank is the ordinal rank of the item_id
\* VALUE within the customer, only rows with equal item_id are ranked at
\* random, so the cap smallest item_id rows of each customer are kept.
RowsBefore(B, p) ==
    LET before == {q \in BagToSet(B) : q[1] = p[1] /\ q[2] < p[2]}
    IN  SumOver(before, [q \in before |-> B[q]])
KeptCopies(B, p, cap) ==
    LET room == cap - RowsBefore(B, p)
    IN  IF room <= 0 THEN 0 ELSE Min(B[p], room)
RankRandomCap(B, cap) ==
    LET kept == {p \in BagToSet(B) : KeptCopies(B, p, cap) > 0}
    IN  [p \in kept |-> KeptCopies(B, p, cap)]

\* frame.unique() on a bag of rows
Unique(B) == SetToBag(BagToSet(B))

\* A mutant of ConcatUnique: the final .unique() is lost.
ConcatKeepDuplicates(A, B, C) == A (+) B (+) C

\* pl.concat([a, b, c]).unique()
ConcatUnique(A, B, C) == Unique(A (+) B (+) C)

TopPopularItems == 50
CategoryCandidatesPerCustomer == 200

\* The items rows of a category (items_by_category joined on "category").
ItemsInCategory(it, cat) == {i \in DOMAIN it : it[i].category = cat}

\* A frame (customer_id, item_id) after a left join: both columns are
\* nullable, a row is <<Some(c), Some(i)>> or, where the join found no match,
\* <<Some(c), Null>>.
NullablePairs(B) ==
    [r \in {<<Some(p[1]), Some(p[2])>> : p \in BagToSet(B)} |-> B[<<r[1][1], r[2][1]>>]]

\* The same frame with plain columns, when no row holds a null.
PlainPairs(B) ==
    [p \in {<<r[1][1], r[2][1]>> : r \in BagToSet(B)} |-> B[<<Some(p[1]), Some(p[2])>>]]

\* The rows of the frame with a null item_id.
NullItemRows(J) == {r \in BagToSet(J) : r[2] = Null}

\* A mutant of NullRankRowsKept: a row whose rank is null passes the filter.
NullRankPassesFilter(J) == NullItemRows(J)

\* The rows with a null rank that filter(pl.col("rank") <= cap) keeps: none.
\* The rank of a null item_id is null, the comparison with cap is null, and
\* filter keeps the rows where the predicate is true.
NullRankRowsKept(J) == {}

\* with_columns(pl.col("item_id").rank("random").over("customer_id")).filter(
\* rank <= cap) on a frame J with a nullable item_id.
RankRandomCapNullable(J, cap) ==
    LET with_rank == BagToSet(J) \ NullItemRows(J)
        kept == RankRandomCap([p \in {<<r[1][1], r[2][1]>> : r \in with_rank} |->
                                  J[<<Some(p[1]), Some(p[2])>>]], cap)
        passed == {<<Some(p[1]), Some(p[2])>> : p \in DOMAIN kept} \cup NullRankRowsKept(J)
    IN  [r \in passed |-> IF r[2] = Null THEN J[r] ELSE kept[<<r[1][1], r[2][1]>>]]

\* _generate_candidates_for_features (c): the categories each customer bought
\* in the historical window, left-joined with the items of the category.  A
\* null category (the purchased item has no items row, or a null category)
\* is a join key that matches no items row and gives a row with a null
\* item_id.
CategoryJoinRows(hist, it) ==
    LET customer_categories ==
            {<<hist[k].customer_id, AttrOf(it, hist[k].item_id, "category")>> : k \in DOMAIN hist}
    IN  UNION {IF cc[2] = Null \/ ItemsInCategory(it, cc[2]) = {}
               THEN {<<Some(cc[1]), Null>>}
               ELSE {<<Some(cc[1]), Some(i)>> : i \in ItemsInCategory(it, cc[2])} :
               cc \in customer_categories}

\* category_candidates with its nullable columns: the join, then the filter
\* rank <= 200.
CategoryCandidateRows(hist, it) ==
    RankRandomCapNullable(SetToBag(CategoryJoinRows(hist, it)), CategoryCandidatesPerCustomer)

\* category_candidates as plain pairs.
CategoryCandidates(hist, it) == PlainPairs(CategoryCandidateRows(hist, it))

\* _generate_candidates_for_features with its nullable columns, top being the
\* outcome of head(50)
DefaultCandidateRows(hist, recent, it, top) ==
    LET positives == SetToBag(UniquePairs(recent))
        popular_candidates == SetToBag(CustomersIn(hist) \X top)
    IN  ConcatUnique(NullablePairs(positives), NullablePairs(popular_candidates),
                     CategoryCandidateRows(hist, it))

\* _generate_candidates_for_features as plain pairs
GenerateCandidatesForFeatures(hist, recent, it, top) ==
    PlainPairs(DefaultCandidateRows(hist, recent, it, top))

\* The rows of bag B that are in the set S.
FilterBag(B, S) == [p \in BagToSet(B) \cap S |-> B[p]]

\* A mutant of build_feature_label_table: candidates are joined with the
\* items frame by an inner join, a candidate whose item has no row is lost.
BuildWithInnerItemJoin(tx, it, w, cand, top, modes) ==
    LET hist == HistTxns(tx, w)
        recent == RecentTxns(tx, w)
        cands == FilterBag(IF cand = None
                           THEN GenerateCandidatesForFeatures(hist, recent, it, top)
                           ELSE cand[1],
                           {p \in Customers \X Items : it[p[2]] # NoItemRow})
        Row(p) == FeatureRow(hist, recent, it, w, p[1], p[2], modes)
    IN  [r \in {Row(p) : p \in BagToSet(cands)} |-> cands[<<r.customer_id, r.item_id>>]]

\* A mutant of build_feature_label_table: customer_features is joined by an
\* inner join, the rows of a customer without historical rows are lost.
BuildWithInnerCustomerJoin(tx, it, w, cand, top, modes) ==
    LET hist == HistTxns(tx, w)
        recent == RecentTxns(tx, w)
        cands == FilterBag(IF cand = None
                           THEN GenerateCandidatesForFeatures(hist, recent, it, top)
                           ELSE cand[1],
                           CustomersIn(hist) \X Items)
        Row(p) == FeatureRow(hist, recent, it, w, p[1], p[2], modes)
    IN  [r \in {Row(p) : p \in BagToSet(cands)} |-> cands[<<r.customer_id, r.item_id>>]]

\* build_feature_label_table: the returned frame as a bag of rows, for the
\* outcomes top (head(50)) and modes (weekday ties) of the unordered steps.
build_feature_label_table(tx, it, w, cand, top, modes) ==
    LET hist == HistTxns(tx, w)
        recent == RecentTxns(tx, w)
        cands == IF cand = None
                 THEN GenerateCandidatesForFeatures(hist, recent, it, top)
                 ELSE cand[1]
        Row(p) == FeatureRow(hist, recent, it, w, p[1], p[2], modes)
    IN  [r \in {Row(p) : p \in BagToSet(cands)} |-> cands[<<r.customer_id, r.item_id>>]]

\* Every frame build_feature_label_table can return.
BuildOutcomes(tx, it, w, cand) ==
    {build_feature_label_table(tx, it, w, cand, top, modes) :
        top \in TopItemsChoices(HistTxns(tx, w), TopPopularItems),
        modes \in ModeChoices(HistTxns(tx, w))}


----------------------------------------------------------------------------
(* candidates.py: the candidate generators.  created_at is the day of the  *)
(* transaction, the created_date field of the model.                       *)

\* transactions.filter(created_at >= observation_date - lookback_days
\*                     & created_at < observation_date)
\* A mutant of LookbackTxns: the observation date itself is in the window.
LookbackEndInclusive(tx, observation_date, lookback_days) ==
    FilterWindow(tx, observation_date - lookback_days, observation_date + 1)

LookbackTxns(tx, observation_date, lookback_days) ==
    FilterWindow(tx, observation_date - lookback_days, observation_date)

\* pl.col(x).rank("dense") <= n within a set S of distinct non-null values:
\* the values whose rank by VALUE, ascending, is at most n
DenseRankAtMost(S, n) == {v \in S : Cardinality({x \in S : x <= v}) <= n}

\* _generate_user_history_candidates
UserHistoryCandidates(tx, observation_date, lookback_days, max_candidates) ==
    RankRandomCap(SetToBag(UniquePairs(LookbackTxns(tx, observation_date, lookback_days))),
                  max_candidates)

\* the bag of the rows <<a, b>>, a row of bag A and b a row of bag B
CrossJoin(A, B) ==
    [p \in BagToSet(A) \X BagToSet(B) |-> A[p[1]] * B[p[2]]]

\* _generate_popular_item_candidates, top being the outcome of
\* sort("popularity", descending=True).head(max_candidates)
PopularItemCandidates(us, top) == CrossJoin(SetToBag(us), SetToBag(top))

TopCategories == 3

\* user_categories: group_by([customer_id, category]), dense rank of the
\* category VALUE within the customer at most 3.  The rank of a null category
\* is null and the filter drops it.
UserCategories(look, it) ==
    UNION {{<<c, g>> : g \in DenseRankAtMost(
                            {AttrOf(it, look[k].item_id, "category")[1] :
                                k \in {j \in DOMAIN look :
                                        /\ look[j].customer_id = c
                                        /\ AttrOf(it, look[j].item_id, "category") # Null}},
                            TopCategories)} :
           c \in CustomersIn(look)}

\* category_popular_items: group_by([category, item_id]) of the purchased
\* items, dense rank of the item_id VALUE within the category at most
\* max_candidates // 3
CategoryPopularItems(look, it, max_candidates) ==
    LET cats == {AttrOf(it, look[k].item_id, "category") : k \in DOMAIN look}
        Bought(g) == {look[k].item_id : k \in {j \in DOMAIN look :
                            AttrOf(it, look[j].item_id, "category") = g}}
    IN  UNION {{<<g, i>> : i \in DenseRankAtMost(Bought(g), max_candidates \div 3)} :
               g \in cats}

\* user_categories left-joined with category_popular_items on category, with
\* its nullable item_id: one row per match and, for a user category without
\* a popular item, one row with a null item_id.
CategoryBasedJoinRows(look, it, max_candidates) ==
    LET cpi == CategoryPopularItems(look, it, max_candidates)
        ucs == UserCategories(look, it)
        Matches(uc) == {gi \in cpi : gi[1] = Some(uc[2])}
        Rows(uc) == IF Matches(uc) = {} THEN {<<Some(uc[1]), Null>>}
                    ELSE {<<Some(uc[1]), Some(gi[2])>> : gi \in Matches(uc)}
    IN  [r \in UNION {Rows(uc) : uc \in ucs} |-> Cardinality({uc \in ucs : r \in Rows(uc)})]

\* _generate_category_based_candidates with its nullable columns: the join,
\* then the filter rank("random") <= max_candidates.
CategoryBasedCandidateRows(tx, it, observation_date, lookback_days, max_candidates) ==
    RankRandomCapNullable(
        CategoryBasedJoinRows(LookbackTxns(tx, observation_date, lookback_days), it,
                              max_candidates),
        max_candidates)

\* _generate_category_based_candidates as plain pairs.
CategoryBasedCandidates(tx, it, observation_date, lookback_days, max_candidates) ==
    PlainPairs(CategoryBasedCandidateRows(tx, it, observation_date, lookback_days,
                                           max_candidates))

\* A mutant of HybridCandidates: the three strategies get the whole budget
\* max_candidates instead of a third of it.
HybridWithWholeBudgets(tx, it, us, observation_date, lookback_days, max_candidates, top) ==
    RankRandomCap(
        ConcatUnique(
            UserHistoryCandidates(tx, observation_date, lookback_days, max_candidates),
            PopularItemCandidates(us, top),
            CategoryBasedCandidates(tx, it, observation_date, lookback_days, max_candidates)),
        max_candidates)

\* _generate_hybrid_candidates, top being the outcome of head(max_candidates // 3)
HybridCandidates(tx, it, us, observation_date, lookback_days, max_candidates, top) ==
    RankRandomCap(
        ConcatUnique(
            UserHistoryCandidates(tx, observation_date, lookback_days, max_candidates \div 3),
            PopularItemCandidates(us, top),
            CategoryBasedCandidates(tx, it, observation_date, lookback_days,
                                    max_candidates \div 3)),
        max_candidates)

Strategies == {"user_history", "popular_items", "category_based", "hybrid"}

\* generate_candidates for one of the four strategies
generate_candidates(tx, it, us, observation_date, strategy, lookback_days, max_candidates, top) ==
    CASE strategy = "user_history" ->
            UserHistoryCandidates(tx, observation_date, lookback_days, max_candidates)
      [] strategy = "popular_items" -> PopularItemCandidates(us, top)
      [] strategy = "category_based" ->
            CategoryBasedCandidates(tx, it, observation_date, lookback_days, max_candidates)
      [] strategy = "hybrid" ->
            HybridCandidates(tx, it, us, observation_date, lookback_days,
                             max_candidates, top)

\* The number of items head() is asked for by the strategy.
PopularBudget(strategy, max_candidates) ==
    IF strategy = "hybrid" THEN max_candidates \div 3 ELSE max_candidates

\* generate_candidates_from_cooc.  cooc maps <<itemA, itemB>>, itemA < itemB,
\* to cooc_count (0: no row); hist_items is the bag customer_hist_items.
CoocItems(cooc) == {p[1] : p \in DOMAIN cooc} \cup {p[2] : p \in DOMAIN cooc}
CoocPartners(cooc, i) ==
    {j \in CoocItems(cooc) : (i < j /\ cooc[<<i, j>>] > 0) \/ (j < i /\ cooc[<<j, i>>] > 0)}
CoocCount(cooc, i, j) == IF i < j THEN cooc[<<i, j>>] ELSE cooc[<<j, i>>]

\* aggregated.total_cooc of (c, j): cooc_count summed over the rows of
\* customer_hist_items of c, in both directions
TotalCooc(hist_items, cooc, c, j) ==
    LET seeds == {p \in BagToSet(hist_items) : p[1] = c /\ j \in CoocPartners(cooc, p[2])}
    IN  SumOver(seeds, [p \in seeds |-> hist_items[p] * CoocCount(cooc, p[2], j)])

\* A mutant of generate_candidates_from_cooc: the group_by that sums the
\* counts is lost, a candidate comes once per seed row that recommends it.
CoocWithoutAggregation(hist_items, cooc, topn_per_customer) ==
    LET Seeds(q) == {p \in BagToSet(hist_items) :
                        p[1] = q[1] /\ q[2] \in CoocPartners(cooc, p[2])}
        rows == {q \in {<<p[1], j>> : p \in BagToSet(hist_items), j \in CoocItems(cooc)} :
                    Seeds(q) # {}}
        Of(c) == {q[2] : q \in {x \in rows : x[1] = c}}
        kept == {q \in rows : q[2] \in DenseRankAtMost(Of(q[1]), topn_per_customer)}
    IN  [q \in kept |-> SumOver(Seeds(q), [p \in Seeds(q) |-> hist_items[p]])]

\* group_by([customer_id, candidate_item]), then the dense rank of the
\* candidate_item VALUE within the customer at most topn_per_customer
generate_candidates_from_cooc(hist_items, cooc, topn_per_customer) ==
    LET aggregated == {q \in {<<p[1], j>> : p \in BagToSet(hist_items), j \in CoocItems(cooc)} :
                          TotalCooc(hist_items, cooc, q[1], q[2]) > 0}
        Of(c) == {q[2] : q \in {x \in aggregated : x[1] = c}}
    IN  SetToBag({q \in aggregated : q[2] \in DenseRankAtMost(Of(q[1]), topn_per_customer)})

\* transactions.select(["customer_id", "item_id"]) as a bag
PairBag(tx) ==
    [p \in UniquePairs(tx) |->
        Cardinality({k \in DOMAIN tx : <<tx[k].customer_id, tx[k].item_id>> = p})]

\* filter_already_purchased 408-416: recent_purchases
RecentPurchases(tx, observation_date, lookback_days) ==
    UniquePairs(LookbackTxns(tx, observation_date, lookback_days))

\* A mutant of filter_already_purchased: the join keeps the matching rows
\* (how="semi") instead of the others.
FilterKeepsPurchased(cands, tx, observation_date, lookback_days) ==
    FilterBag(cands, RecentPurchases(tx, observation_date, lookback_days))

\* candidates.join(recent_purchases, on=[customer_id, item_id], how="anti"):
\* every row of candidates without a match, as often as it occurs
filter_already_purchased(cands, tx, observation_date, lookback_days) ==
    FilterBag(cands, BagToSet(cands) \ RecentPurchases(tx, observation_date, lookback_days))

\* build_item_cooccurrence.  key_cols is a sequence of column names; the
\* basket of a row is given by its values in the key columns.
BasketKey(t, key_cols) == [n \in DOMAIN key_cols |-> t[key_cols[n]]]

\* transactions.select(key_cols + ["item_id"]): a bag of rows <<key, item_id>>
BasketRows(tx, key_cols) ==
    [b \in {<<BasketKey(tx[k], key_cols), tx[k].item_id>> : k \in DOMAIN tx} |->
        Cardinality({k \in DOMAIN tx : <<BasketKey(tx[k], key_cols), tx[k].item_id>> = b})]

\* A mutant of Baskets: the .unique() is lost, an item repeated in a basket
\* stays repeated.
BasketsKeepDuplicates(tx, key_cols) == BasketRows(tx, key_cols)

\* candidates.py 27
Baskets(tx, key_cols) == Unique(BasketRows(tx, key_cols))

\* baskets joined with itself on the key columns, the rows with item_id <
\* item_id_right, grouped by (item_id, item_id_right) and counted.  The
\* returned frame has one row per group; the final sort orders the rows only.
build_item_cooccurrence(tx, key_cols) ==
    LET baskets == Baskets(tx, key_cols)
        pairs == {q \in BagToSet(baskets) \X BagToSet(baskets) :
                    q[1][1] = q[2][1] /\ q[1][2] < q[2][2]}
        groups == {<<q[1][2], q[2][2]>> : q \in pairs}
        Of(g) == {q \in pairs : <<q[1][2], q[2][2]>> = g}
        Count(g) == SumOver(Of(g), [q \in Of(g) |-> baskets[q[1]] * baskets[q[2]]])
    IN  SetToBag({[itemA |-> g[1], itemB |-> g[2], cooc_count |-> Count(g)] : g \in groups})

----------------------------------------------------------------------------
(* Specification SpecRank: one call of predict_and_rank on any scored      *)
(* frame of unique (customer_id, item_id) pairs.                           *)

ScoredFrames ==
    UNION {{{[customer_id |-> p[1], item_id |-> p[2], score |-> f[p]] : p \in P} :
                f \in [P -> Scores]} :
           P \in {Q \in SUBSET (Customers \X Items) : Cardinality(Q) <= MaxRows}}

TopKChoices == {None} \cup {Some(k) : k \in 1..MaxTopK}

\* The variables of the feature builder, unused by predict_and_rank.
NoFeatureCall ==
    /\ transactions = <<>>
    /\ items = <<>>
    /\ windows = <<>>
    /\ candidates = None
    /\ result = EmptyBag
    /\ other_transactions = <<>>
    /\ other_result = EmptyBag

\* The variables of the candidate generators, unused by the other calls.
NoCandidateCall ==
    /\ users = {}
    /\ cand_call = <<>>
    /\ cand_out = EmptyBag
    /\ cooc_out = EmptyBag

featVars == <<transactions, items, windows, candidates, result,
              other_transactions, other_result>>
candVars == <<users, cand_call, cand_out, cooc_out>>
featVarsButTables == <<windows, candidates, result, other_transactions, other_result>>
rankVars == <<scored, top_k, ranked>>
evalVars == <<ground_truth, metrics>>
scriptVars == <<runs, clock, files, data>>

\* The variables of the evaluators, unused by the other calls.
NoEvaluation ==
    /\ ground_truth = EmptyBag
    /\ metrics = <<>>

\* The variables of the pipeline scripts, unused by the calls of one function.
NoScriptRun ==
    /\ runs = <<>>
    /\ clock = 0
    /\ files = <<>>
    /\ data = <<>>

InitRank ==
    /\ pc = "start"
    /\ scored \in ScoredFrames
    /\ top_k = None
    /\ ranked = <<>>
    /\ NoEvaluation /\ NoScriptRun
    /\ NoFeatureCall
    /\ NoCandidateCall

PredictAndRank(k) ==
    /\ pc = "start"
    /\ \E out \in predict_and_rank(scored, k) :
          /\ ranked' = out
          /\ top_k' = k
          /\ pc' = "ranked"
    /\ UNCHANGED <<scored, featVars, candVars, evalVars, scriptVars>>

NextRank == \E k \in TopKChoices : PredictAndRank(k)

SpecRank == InitRank /\ [][NextRank]_vars


----------------------------------------------------------------------------
(* Specification SpecFeat: one call of build_feature_label_table on any    *)
(* transactions frame, items frame and candidates argument.                *)

TxnRows == [customer_id : Customers, item_id : Items, created_date : Days]

\* Row order of the transactions frame: rows in ascending (customer_id,
\* item_id, created_date).  build_feature_label_table only filters, groups and
\* joins, and the steps whose outcome follows row order are modelled by all
\* their outcomes, so one order stands for every order of the same rows.
RowLeq(a, b) ==
    \/ a.customer_id < b.customer_id
    \/ /\ a.customer_id = b.customer_id
       /\ \/ a.item_id < b.item_id
          \/ a.item_id = b.item_id /\ a.created_date <= b.created_date

TxnTables ==
    UNION {{s \in [1..n -> TxnRows] : \A k \in 1..(n - 1) : RowLeq(s[k], s[k + 1])} :
              n \in 0..MaxTxns}

RECURSIVE SortedTables(_, _)
\* The same for any set of rows: the frames of at most n of the rows, in
\* ascending row order.
SortedTables(rows, n) ==
    IF n = 0 THEN {<<>>}
    ELSE LET shorter == SortedTables(rows, n - 1)
             longest == {t \in shorter : Len(t) = n - 1}
         IN  shorter \cup
             {Append(q[1], q[2]) :
                 q \in {x \in longest \X rows :
                            Len(x[1]) = 0 \/ RowLeq(x[1][Len(x[1])], x[2])}}

ItemAttrs ==
    {NoItemRow} \cup
    {[brand |-> Some(b), age_group |-> Some(a), category |-> Some(g)] :
        b \in 1..NumBrands, a \in 1..NumAgeGroups, g \in 1..NumCategories}

ItemTables == [Items -> ItemAttrs]

\* run_recommender.py 27-30: the label window starts where the historical
\* window ends; the model has one day before the first and, from MaxDay = 4
\* on, days after the second.
WindowChoices ==
    {[begin_hist |-> 1, end_hist |-> 3, begin_recent |-> 3, end_recent |-> 4]}

CandidateChoices ==
    {None} \cup {Some(SetToBag(S)) : S \in SUBSET (Customers \X Items)}

InitFeat ==
    /\ pc = "start"
    /\ transactions \in TxnTables
    /\ items \in ItemTables
    /\ windows \in WindowChoices
    /\ candidates \in CandidateChoices
    /\ result = EmptyBag
    /\ other_transactions = <<>> /\ other_result = EmptyBag
    /\ scored = {} /\ top_k = None /\ ranked = <<>>
    /\ NoEvaluation /\ NoScriptRun
    /\ NoCandidateCall

BuildFeatureLabelTable ==
    /\ pc = "start"
    /\ \E out \in BuildOutcomes(transactions, items, windows, candidates) :
          result' = out
    /\ pc' = "built"
    /\ UNCHANGED <<transactions, items, windows, candidates, rankVars, evalVars, scriptVars,
                   other_transactions, other_result, candVars>>

NextFeat == BuildFeatureLabelTable

SpecFeat == InitFeat /\ [][NextFeat]_vars

----------------------------------------------------------------------------
(* Specification SpecTwoBuilds: build_feature_label_table is called on a   *)
(* transactions frame and then once more, with the same items frame,       *)
(* windows and supplied candidates, on a transactions frame that has the   *)
(* same rows in the historical window (the same frame included).           *)

AllPairs == Some(SetToBag(Customers \X Items))

InitTwoBuilds ==
    /\ pc = "start"
    /\ transactions \in TxnTables
    /\ items \in ItemTables
    /\ windows \in WindowChoices
    /\ candidates = AllPairs
    /\ result = EmptyBag
    /\ other_transactions = <<>> /\ other_result = EmptyBag
    /\ scored = {} /\ top_k = None /\ ranked = <<>>
    /\ NoEvaluation /\ NoScriptRun
    /\ NoCandidateCall

BuildAgain(tx) ==
    /\ pc = "built"
    /\ HistTxns(tx, windows) = HistTxns(transactions, windows)
    /\ \E out \in BuildOutcomes(tx, items, windows, candidates) :
          other_result' = out
    /\ other_transactions' = tx
    /\ pc' = "built_again"
    /\ UNCHANGED <<transactions, items, windows, candidates, result, rankVars, candVars, evalVars, scriptVars>>

NextTwoBuilds ==
    \/ BuildFeatureLabelTable
    \/ \E tx \in TxnTables : BuildAgain(tx)

SpecTwoBuilds == InitTwoBuilds /\ [][NextTwoBuilds]_vars

----------------------------------------------------------------------------
(* Specification SpecCand: one call of generate_candidates or of           *)
(* generate_candidates_from_cooc on any transactions frame, items frame    *)
(* and users frame with one row per id.                                    *)

\* The candidate generators read only the category of an item.
CategoryTables ==
    {it \in ItemTables : \A i \in Items :
        it[i] # NoItemRow => it[i].brand = Some(1) /\ it[i].age_group = Some(1)}

\* main.py 106: the observation date is an argument; the model calls with
\* day MaxDay - 1 and a lookback of two days, so that there are days before,
\* in and after the lookback window.
ObservationDates == {MaxDay - 1}
LookbackChoices == {2}

\* co-occurrence frames of the shape build_item_cooccurrence returns: one row
\* per pair itemA < itemB with cooc_count >= 1 (0 stands for no row)
CoocTables == [{p \in Items \X Items : p[1] < p[2]} -> 0..MaxCooc]

NoCooc == <<>>

InitCand ==
    /\ pc = "start"
    /\ transactions \in TxnTables
    /\ items \in CategoryTables
    /\ users \in SUBSET Customers
    /\ cand_call = <<>>
    /\ cand_out = EmptyBag
    /\ cooc_out = EmptyBag
    /\ windows = <<>> /\ candidates = None /\ result = EmptyBag
    /\ other_transactions = <<>> /\ other_result = EmptyBag
    /\ scored = {} /\ top_k = None /\ ranked = <<>>
    /\ NoEvaluation /\ NoScriptRun

CandCall(fn, strategy, observation_date, lookback_days, max_candidates, cooc) ==
    [fn |-> fn, strategy |-> strategy, observation_date |-> observation_date,
     lookback_days |-> lookback_days, max_candidates |-> max_candidates, cooc |-> cooc]

GenerateCandidates(strategy, observation_date, lookback_days, max_candidates) ==
    /\ pc = "start"
    /\ strategy \in Strategies
    /\ \E top \in TopItemsChoices(LookbackTxns(transactions, observation_date, lookback_days),
                                  PopularBudget(strategy, max_candidates)) :
          cand_out' = generate_candidates(transactions, items, users, observation_date,
                                          strategy, lookback_days, max_candidates, top)
    /\ cand_call' = CandCall("generate_candidates", strategy, observation_date,
                             lookback_days, max_candidates, NoCooc)
    /\ pc' = "candidates"
    /\ UNCHANGED <<transactions, items, users, cooc_out, featVarsButTables, rankVars, evalVars, scriptVars>>

\* A mutant of GenerateCandidatesUnknownStrategy: an unknown name falls back
\* to the default strategy, hybrid, and candidates are returned.
UnknownStrategyFallsBackToHybrid(strategy, observation_date, lookback_days, max_candidates) ==
    /\ pc = "start"
    /\ strategy \notin Strategies
    /\ \E top \in TopItemsChoices(LookbackTxns(transactions, observation_date, lookback_days),
                                  PopularBudget("hybrid", max_candidates)) :
          cand_out' = generate_candidates(transactions, items, users, observation_date,
                                          "hybrid", lookback_days, max_candidates, top)
    /\ cand_call' = CandCall("generate_candidates", strategy, observation_date,
                             lookback_days, max_candidates, NoCooc)
    /\ pc' = "candidates"
    /\ UNCHANGED <<transactions, items, users, cooc_out, featVarsButTables, rankVars, evalVars, scriptVars>>

\* generate_candidates 169-170: raise ValueError
GenerateCandidatesUnknownStrategy(strategy, observation_date, lookback_days, max_candidates) ==
    /\ pc = "start"
    /\ strategy \notin Strategies
    /\ cand_call' = CandCall("generate_candidates", strategy, observation_date,
                             lookback_days, max_candidates, NoCooc)
    /\ pc' = "raised"
    /\ UNCHANGED <<transactions, items, users, cand_out, cooc_out, featVarsButTables, rankVars, evalVars, scriptVars>>

GenerateCandidatesFromCooc(cooc, topn_per_customer) ==
    /\ pc = "start"
    /\ cand_out' = generate_candidates_from_cooc(PairBag(transactions), cooc, topn_per_customer)
    /\ cand_call' = CandCall("generate_candidates_from_cooc", "cooc", 0, 0,
                             topn_per_customer, cooc)
    /\ pc' = "candidates"
    /\ UNCHANGED <<transactions, items, users, cooc_out, featVarsButTables, rankVars, evalVars, scriptVars>>

NextCand ==
    \/ \E s \in Strategies, d \in ObservationDates, l \in LookbackChoices,
          m \in 1..MaxCandidates : GenerateCandidates(s, d, l, m)
    \/ \E d \in ObservationDates, l \in LookbackChoices, m \in 1..MaxCandidates :
          GenerateCandidatesUnknownStrategy("item_based", d, l, m)
    \/ \E cooc \in CoocTables, m \in 1..MaxCandidates : GenerateCandidatesFromCooc(cooc, m)

SpecCand == InitCand /\ [][NextCand]_vars

----------------------------------------------------------------------------
(* Claims about predict_and_rank, checked under SpecRank.                  *)

ScoredOf(c) == {r \in scored : r.customer_id = c}
RankedOf(c) == {r \in RowsOfSeq(ranked) : r.customer_id = c}

\* C1: in the output of predict_and_rank, whenever two rows of the same
\* customer have scores s1 > s2, the row with s1 has the smaller rank.
C1_RankFollowsScore ==
    pc = "ranked" =>
        \A c \in Customers : \A r1, r2 \in RankedOf(c) :
            r1.score > r2.score => r1.rank < r2.rank

\* C2: with top_k = K every customer with n scored rows gets exactly
\* min(K, n) rows back, and no dropped row of the customer has a strictly
\* higher score than a kept row of the customer.
C2_TopKKeepsHighestScores ==
    (pc = "ranked" /\ top_k # None) =>
        \A c \in Customers :
            LET kept == PairsOf(RankedOf(c))
                dropped == {r \in ScoredOf(c) : <<r.customer_id, r.item_id>> \notin kept}
            IN  /\ Cardinality(RankedOf(c)) = Min(top_k[1], Cardinality(ScoredOf(c)))
                /\ \A d \in dropped : \A r \in RankedOf(c) : ~(d.score > r.score)

\* C3: for every customer with n distinct candidate items the ranks assigned
\* by predict_and_rank are exactly 1..n, each used once, also when scores
\* tie, and they are the ranks the customer's rows get when they are ranked
\* without the rows of any other customer.
C3_RanksAreOneToN ==
    (pc = "ranked" /\ top_k = None) =>
        \A c \in Customers :
            LET n == Cardinality({r.item_id : r \in ScoredOf(c)})
            IN  /\ {r.rank : r \in RankedOf(c)} = 1..n
                /\ \A r1, r2 \in RankedOf(c) : r1.rank = r2.rank => r1 = r2
                /\ Cardinality(RankedOf(c)) = n
                /\ \A alone \in predict_and_rank(ScoredOf(c), None) :
                      \A r \in RankedOf(c) : r \in RowsOfSeq(alone)

\* C3 witness: a customer with two items of equal score, ranked next to the
\* rows of another customer.
C3_Witness ==
    /\ pc = "ranked" /\ top_k = None
    /\ \E r1, r2 \in RankedOf(1) :
          r1.item_id # r2.item_id /\ r1.score = r2.score /\ r1.rank # r2.rank
    /\ RankedOf(2) # {}

----------------------------------------------------------------------------
(* Claims about build_feature_label_table, checked under SpecFeat.  The    *)
(* claims are stated on the arguments of the call, not on the helpers.     *)

ResultRows == BagToSet(result)
RowsOfPair(c, i) == {r \in ResultRows : r.customer_id = c /\ r.item_id = i}

\* customer c bought item i at a date with begin_recent <= date < end_recent
BoughtInLabelWindow(c, i) ==
    \E k \in DOMAIN transactions :
        /\ transactions[k].customer_id = c /\ transactions[k].item_id = i
        /\ windows.begin_recent <= transactions[k].created_date
        /\ transactions[k].created_date < windows.end_recent

\* the rows of customer c with begin_hist <= date < end_hist
HistRowsOf(c) ==
    {k \in DOMAIN transactions :
        /\ transactions[k].customer_id = c
        /\ windows.begin_hist <= transactions[k].created_date
        /\ transactions[k].created_date < windows.end_hist}

CustomerLevel(r) ==
    <<r.X4, r.X5, r.X6, r.X7, r.X8, r.X9, r.X10, r.X11, r.X12, r.X13>>

\* C4: in every output row Y = 1 if and only if the row's pair occurs in a
\* transaction with begin_recent <= created_date < end_recent; every other
\* row has Y = 0 and Y is never null.
C4_LabelIffBoughtInLabelWindow ==
    pc = "built" =>
        \A r \in ResultRows :
            /\ r.Y \in {0, 1}
            /\ r.Y = 1 <=> BoughtInLabelWindow(r.customer_id, r.item_id)

\* C4 witness: a row with Y = 1 next to a row with Y = 0 whose pair was
\* bought, but only outside the label window.
C4_Witness ==
    /\ pc = "built"
    /\ \E r \in ResultRows : r.Y = 1
    /\ \E r \in ResultRows :
          /\ r.Y = 0
          /\ \E k \in DOMAIN transactions :
                /\ transactions[k].customer_id = r.customer_id
                /\ transactions[k].item_id = r.item_id
                /\ transactions[k].created_date >= windows.end_recent

\* C6: any two output rows with the same customer_id carry identical values
\* of X4 through X13, whatever their item_id.
C6_CustomerFeaturesBroadcast ==
    pc = "built" =>
        \A r1, r2 \in ResultRows :
            r1.customer_id = r2.customer_id => CustomerLevel(r1) = CustomerLevel(r2)

\* C6 witness: a customer with historical purchases has two rows, one for an
\* item bought in the historical window and one for an item that was not.
C6_Witness ==
    /\ pc = "built"
    /\ \E r1, r2 \in ResultRows :
          /\ r1.customer_id = r2.customer_id /\ r1.item_id # r2.item_id
          /\ r1.X4 > 0 /\ r1.X1 > 0 /\ r2.X1 = 0
          /\ \E k \in HistRowsOf(r1.customer_id) : transactions[k].item_id = r1.item_id
          /\ \A k \in HistRowsOf(r1.customer_id) : transactions[k].item_id # r2.item_id

\* C8: called without a candidate set, every distinct pair purchased in the
\* label window is in the output as exactly one row, with Y = 1, also when
\* its customer or item has no transaction in the historical window.
C8_PositivesAreCandidates ==
    (pc = "built" /\ candidates = None) =>
        \A c \in Customers : \A i \in Items :
            BoughtInLabelWindow(c, i) =>
                /\ Cardinality(RowsOfPair(c, i)) = 1
                /\ \A r \in RowsOfPair(c, i) : result[r] = 1 /\ r.Y = 1

\* C8 witness: a label-window pair whose customer and item are both absent
\* from the historical window is in the output, while another customer has
\* historical purchases (so the other two candidate sources are not empty).
C8_Witness ==
    /\ pc = "built" /\ candidates = None
    /\ \E c \in Customers : \E i \in Items :
          /\ BoughtInLabelWindow(c, i)
          /\ HistRowsOf(c) = {}
          /\ \A d \in Customers : \A k \in HistRowsOf(d) : transactions[k].item_id # i
          /\ \E r \in RowsOfPair(c, i) : r.Y = 1
    /\ \E d \in Customers : HistRowsOf(d) # {}

\* C9: when a candidate set of unique pairs is supplied, the pairs of the
\* output are exactly the supplied pairs: none is dropped, none is added and
\* each pair is one row.
C9_SuppliedCandidatesKept ==
    (pc = "built" /\ candidates # None) =>
        /\ {<<r.customer_id, r.item_id>> : r \in ResultRows} = BagToSet(candidates[1])
        /\ \A r \in ResultRows :
              /\ result[r] = 1
              /\ RowsOfPair(r.customer_id, r.item_id) = {r}

\* C9 witness: the supplied set holds a pair whose item has no items row and
\* lacks a pair that was bought in the label window (which the default
\* generation would have added).
C9_Witness ==
    /\ pc = "built" /\ candidates # None
    /\ \E r \in ResultRows : items[r.item_id] = NoItemRow
    /\ \E c \in Customers : \E i \in Items :
          BoughtInLabelWindow(c, i) /\ RowsOfPair(c, i) = {}

AllFeaturesZero(r) ==
    /\ r.X1 = 0 /\ r.X2 = 0 /\ r.X3 = 0
    /\ CustomerLevel(r) = CustomerLevel(ZeroCustomerFeatures)
    /\ r.X5 = <<0, 1>> /\ r.X7 = <<0, 1>> /\ r.X8 = <<0, 1>>
    /\ r.X10 = <<0, 1>> /\ r.X13 = <<0, 1>>

\* C10: a candidate row whose customer has no transaction in the historical
\* window is kept in the output and all of X1..X13 on it are 0.
C10_NoHistoryRowKeptAllZero ==
    pc = "built" =>
        /\ \A r \in ResultRows : HistRowsOf(r.customer_id) = {} => AllFeaturesZero(r)
        /\ candidates # None =>
              \A p \in BagToSet(candidates[1]) :
                  HistRowsOf(p[1]) = {} => RowsOfPair(p[1], p[2]) # {}

\* C10 witness: a supplied candidate of a customer without historical rows is
\* in the output while another customer has historical rows and non-zero
\* features.
C10_Witness ==
    /\ pc = "built" /\ candidates # None
    /\ \E r \in ResultRows : HistRowsOf(r.customer_id) = {} /\ AllFeaturesZero(r)
    /\ \E r \in ResultRows : r.X4 > 0 /\ r.X9 > 0

----------------------------------------------------------------------------
(* Claims about two calls of build_feature_label_table, checked under      *)
(* SpecTwoBuilds.                                                          *)

OtherRows == BagToSet(other_result)
AllFeatures(r) == <<r.X1, r.X2, r.X3>> \o CustomerLevel(r)

\* the two transactions frames hold the same rows with
\* begin_hist <= created_date < end_hist
SameHistoricalRows ==
    \A row \in TxnRows :
        (windows.begin_hist <= row.created_date /\ row.created_date < windows.end_hist) =>
            Cardinality({k \in DOMAIN transactions : transactions[k] = row})
              = Cardinality({k \in DOMAIN other_transactions : other_transactions[k] = row})

\* C5: for a fixed supplied candidate set and items frame, two transactions
\* frames with the same rows in the historical window yield identical
\* X1..X13 on every candidate row, whatever they hold outside that window.
C5_FeaturesFromHistoryOnly ==
    (pc = "built_again" /\ SameHistoricalRows) =>
        \A r1 \in ResultRows : \A r2 \in OtherRows :
            (r1.customer_id = r2.customer_id /\ r1.item_id = r2.item_id) =>
                AllFeatures(r1) = AllFeatures(r2)

\* The part of C5 that the code keeps: every feature but X11 is identical,
\* and X11 is identical for a customer whose most frequent weekday is unique.
FeaturesFromHistoryOnlyUpToWeekdayTie ==
    (pc = "built_again" /\ SameHistoricalRows) =>
        \A r1 \in ResultRows : \A r2 \in OtherRows :
            (r1.customer_id = r2.customer_id /\ r1.item_id = r2.item_id) =>
                /\ [AllFeatures(r1) EXCEPT ![11] = 0] = [AllFeatures(r2) EXCEPT ![11] = 0]
                /\ \/ r1.X11 = r2.X11
                   \/ Cardinality({transactions[k].created_date :
                                      k \in HistRowsOf(r1.customer_id)}) > 1

----------------------------------------------------------------------------
(* Claims about the candidate generators, checked under SpecCand.          *)

\* C7: with items and users frames of one row per id, every strategy of
\* generate_candidates and generate_candidates_from_cooc returns a frame in
\* which no (customer_id, item_id) pair occurs more than once.
C7_CandidatePairsUnique ==
    pc = "candidates" => \A p \in BagToSet(cand_out) : cand_out[p] = 1

\* C7 witness: the hybrid strategy returns a pair that the customer bought in
\* the lookback window and that is a popular item for a customer of the
\* users frame, so two of the three sources produce it.
C7_Witness ==
    /\ pc = "candidates" /\ cand_call.strategy = "hybrid"
    /\ \E p \in BagToSet(cand_out) :
          /\ p[1] \in users
          /\ \E k \in DOMAIN transactions :
                /\ transactions[k].customer_id = p[1] /\ transactions[k].item_id = p[2]
                /\ cand_call.observation_date - cand_call.lookback_days
                      <= transactions[k].created_date
                /\ transactions[k].created_date < cand_call.observation_date

----------------------------------------------------------------------------
(* Specification SpecWindows: one call of build_feature_label_table with   *)
(* windows that are adjacent (end_hist = begin_recent) or that overlap     *)
(* (begin_recent < end_hist).                                              *)

\* features.py 392-395: the four window arguments, any datetimes
AnyWindowChoices ==
    [begin_hist : {1}, end_hist : {3}, begin_recent : {2, 3}, end_recent : {4}]

InitWindows ==
    /\ pc = "start"
    /\ transactions \in TxnTables
    /\ items \in CategoryTables
    /\ windows \in AnyWindowChoices
    /\ candidates \in {None, AllPairs}
    /\ result = EmptyBag
    /\ other_transactions = <<>> /\ other_result = EmptyBag
    /\ scored = {} /\ top_k = None /\ ranked = <<>>
    /\ NoEvaluation /\ NoScriptRun
    /\ NoCandidateCall

SpecWindows == InitWindows /\ [][NextFeat]_vars

\* C11: a call with begin_recent < end_hist is rejected before any feature or
\* label is computed: it never returns a feature table.  (The adjacent case
\* end_hist = begin_recent is accepted.)
C11_OverlappingWindowsRejected ==
    (windows.begin_recent < windows.end_hist) => pc # "built"

\* The accepted half of C11: with adjacent windows the call returns.
AdjacentWindowsAccepted ==
    (pc = "start" /\ windows.end_hist = windows.begin_recent) => ENABLED BuildFeatureLabelTable

----------------------------------------------------------------------------
(* Specification SpecCold: one call of build_feature_label_table with      *)
(* supplied candidates on a transactions frame of up to MaxColdTxns rows,  *)
(* so that a customer can have three historical transactions.             *)

MaxColdTxns == 3

InitCold ==
    /\ pc = "start"
    /\ transactions \in SortedTables(TxnRows, MaxColdTxns)
    /\ items \in CategoryTables
    /\ windows \in WindowChoices
    /\ candidates = AllPairs
    /\ result = EmptyBag
    /\ other_transactions = <<>> /\ other_result = EmptyBag
    /\ scored = {} /\ top_k = None /\ ranked = <<>>
    /\ NoEvaluation /\ NoScriptRun
    /\ NoCandidateCall

SpecCold == InitCold /\ [][NextFeat]_vars

\* C12 as stated: on every output row X12_is_new_customer is 1 if the row's
\* customer has fewer than 3 transactions in the historical window and 0
\* otherwise.
C12_NewCustomerIffFewerThanThree ==
    pc = "built" =>
        \A r \in ResultRows :
            r.X12 = IF Cardinality(HistRowsOf(r.customer_id)) < 3 THEN 1 ELSE 0

\* C12 amended: on every output row X12_is_new_customer is 1 if the row's
\* customer has at least one and fewer than 3 transactions in the historical
\* window, and 0 otherwise: 0 with 3 or more, and 0 with none, where the
\* feature is absent and filled with 0.
C12_NewCustomerIffOneOrTwo ==
    pc = "built" =>
        \A r \in ResultRows :
            r.X12 = IF /\ Cardinality(HistRowsOf(r.customer_id)) >= 1
                       /\ Cardinality(HistRowsOf(r.customer_id)) < 3
                    THEN 1 ELSE 0

\* C12 witness: the table has a row of a customer with three historical
\* transactions and a row of a customer with none, both with X12 = 0.
C12_Witness ==
    /\ pc = "built"
    /\ \E r \in ResultRows :
          Cardinality(HistRowsOf(r.customer_id)) = 3 /\ r.X12 = 0
    /\ \E r \in ResultRows :
          Cardinality(HistRowsOf(r.customer_id)) = 0 /\ r.X12 = 0

----------------------------------------------------------------------------
(* Specification SpecCooc: one call of build_item_cooccurrence, or of      *)
(* generate_candidates_from_cooc with any co-occurrence frame, on a        *)
(* transactions frame over NumCoocItems items.                             *)

NumCoocItems == 3
NumBasketDays == 2
MaxBasketRows == 4

BasketTxnRows ==
    [customer_id : Customers, item_id : 1..NumCoocItems, created_date : 1..NumBasketDays]

\* candidates.py 20: e.g. ["customer_id", "order_id"]; a basket of the model
\* is all a customer bought, or what the customer bought on one day.
KeyColsChoices == {<<"customer_id">>, <<"customer_id", "created_date">>}

WideCoocTables ==
    [{p \in (1..NumCoocItems) \X (1..NumCoocItems) : p[1] < p[2]} -> 0..MaxCooc]

InitCooc ==
    /\ pc = "start"
    /\ transactions \in SortedTables(BasketTxnRows, MaxBasketRows)
    /\ items = <<>> /\ users = {}
    /\ cand_call = <<>>
    /\ cand_out = EmptyBag
    /\ cooc_out = EmptyBag
    /\ windows = <<>> /\ candidates = None /\ result = EmptyBag
    /\ other_transactions = <<>> /\ other_result = EmptyBag
    /\ scored = {} /\ top_k = None /\ ranked = <<>>
    /\ NoEvaluation /\ NoScriptRun

BuildItemCooccurrence(key_cols) ==
    /\ pc = "start"
    /\ cooc_out' = build_item_cooccurrence(transactions, key_cols)
    /\ cand_call' = [fn |-> "build_item_cooccurrence", key_cols |-> key_cols]
    /\ pc' = "cooc"
    /\ UNCHANGED <<transactions, items, users, cand_out, featVarsButTables, rankVars, evalVars, scriptVars>>

NextCooc ==
    \/ \E key_cols \in KeyColsChoices : BuildItemCooccurrence(key_cols)
    \/ \E cooc \in WideCoocTables, m \in 1..MaxCandidates : GenerateCandidatesFromCooc(cooc, m)

SpecCooc == InitCooc /\ [][NextCooc]_vars

----------------------------------------------------------------------------
(* Claims about the co-occurrence functions, checked under SpecCooc.       *)

\* the distinct items customer c has in customer_hist_items
SeedItems(c) ==
    {transactions[k].item_id : k \in {j \in DOMAIN transactions :
                                         transactions[j].customer_id = c}}

\* the summed co-occurrence weight of item j for customer c: cooc_count of
\* the pair {i, j} summed over the seed items i of c, in both directions
SummedWeight(c, j) ==
    LET seeds == {i \in SeedItems(c) : i # j}
    IN  SumOver(seeds, [i \in seeds |-> CoocCount(cand_call.cooc, i, j)])

ReturnedItems(c) == {p[2] : p \in {q \in BagToSet(cand_out) : q[1] = c}}

\* C13: generate_candidates_from_cooc returns at most topn_per_customer items
\* for each customer, and no co-occurring item it omits has a strictly higher
\* summed co-occurrence weight than an item it returns.
C13_TopSummedWeight ==
    (pc = "candidates" /\ cand_call.fn = "generate_candidates_from_cooc") =>
        \A c \in Customers :
            /\ Cardinality(ReturnedItems(c)) <= cand_call.max_candidates
            /\ \A i \in ReturnedItems(c) :
                  \A j \in (1..NumCoocItems) \ ReturnedItems(c) :
                      SummedWeight(c, j) <= SummedWeight(c, i)

\* The first half of C13 alone, which holds.
AtMostTopNPerCustomer ==
    (pc = "candidates" /\ cand_call.fn = "generate_candidates_from_cooc") =>
        \A c \in Customers : Cardinality(ReturnedItems(c)) <= cand_call.max_candidates

\* the number of distinct baskets that contain both item a and item b
SharedBaskets(a, b) ==
    Cardinality({key \in {BasketKey(transactions[k], cand_call.key_cols) :
                             k \in DOMAIN transactions} :
        /\ \E k \in DOMAIN transactions :
              /\ BasketKey(transactions[k], cand_call.key_cols) = key
              /\ transactions[k].item_id = a
        /\ \E k \in DOMAIN transactions :
              /\ BasketKey(transactions[k], cand_call.key_cols) = key
              /\ transactions[k].item_id = b})

CoocRows == BagToSet(cooc_out)

\* C14: build_item_cooccurrence returns exactly one row per unordered pair of
\* distinct items that share a basket, with itemA < itemB, never the other
\* orientation and never a self-pair, and the row's cooc_count is the number
\* of distinct baskets that contain both items, however often an item is
\* repeated in a basket.
C14_OneRowPerSharedPair ==
    pc = "cooc" =>
        /\ \A r \in CoocRows :
              /\ cooc_out[r] = 1
              /\ r.itemA < r.itemB
              /\ r.cooc_count >= 1
              /\ r.cooc_count = SharedBaskets(r.itemA, r.itemB)
        /\ \A a, b \in 1..NumCoocItems :
              (a < b /\ SharedBaskets(a, b) >= 1) =>
                  Cardinality({r \in CoocRows : r.itemA = a /\ r.itemB = b}) = 1

\* C14 witness: a pair of items shares one basket, in which the first item is
\* repeated, and its row has cooc_count 1.
C14_Witness ==
    /\ pc = "cooc"
    /\ \E r \in CoocRows :
          /\ r.cooc_count = 1
          /\ \E k1, k2 \in DOMAIN transactions :
                /\ k1 # k2
                /\ transactions[k1].item_id = r.itemA
                /\ transactions[k2].item_id = r.itemA
                /\ BasketKey(transactions[k1], cand_call.key_cols)
                      = BasketKey(transactions[k2], cand_call.key_cols)

----------------------------------------------------------------------------
(* Specification SpecCategory: one call of generate_candidates with the    *)
(* category_based strategy on a transactions frame over NumCatItems items  *)
(* in up to NumCatItems categories, all bought in the lookback window.     *)

NumCatItems == 4
MaxCatTxns == 5

CatTxnRows ==
    [customer_id : Customers, item_id : 1..NumCatItems, created_date : {MaxDay - 2}]

\* items frames in which item i is of category i or of category 1
CatItemTables ==
    {it \in [1..NumCatItems -> [brand : {Some(1)}, age_group : {Some(1)},
                                category : {Some(g) : g \in 1..NumCatItems}]] :
        \A i \in 1..NumCatItems : it[i].category \in {Some(i), Some(1)}}

InitCategory ==
    /\ pc = "start"
    /\ transactions \in SortedTables(CatTxnRows, MaxCatTxns)
    /\ items \in CatItemTables
    /\ users = {}
    /\ cand_call = <<>>
    /\ cand_out = EmptyBag
    /\ cooc_out = EmptyBag
    /\ windows = <<>> /\ candidates = None /\ result = EmptyBag
    /\ other_transactions = <<>> /\ other_result = EmptyBag
    /\ scored = {} /\ top_k = None /\ ranked = <<>>
    /\ NoEvaluation /\ NoScriptRun

NextCategory ==
    \E d \in ObservationDates, l \in LookbackChoices, m \in 1..MaxCandidates :
        GenerateCandidates("category_based", d, l, m)

SpecCategory == InitCategory /\ [][NextCategory]_vars

----------------------------------------------------------------------------
(* Claims about the category_based strategy, checked under SpecCategory.   *)

\* the rows of the transactions frame in the lookback window of the call
LookbackRows ==
    {k \in DOMAIN transactions :
        /\ cand_call.observation_date - cand_call.lookback_days
              <= transactions[k].created_date
        /\ transactions[k].created_date < cand_call.observation_date}

CategoryOfItem(i) == items[i].category

\* how often customer c bought an item of category g in the lookback window
CategoryPurchases(c, g) ==
    Cardinality({k \in LookbackRows :
        transactions[k].customer_id = c /\ CategoryOfItem(transactions[k].item_id) = Some(g)})

\* the categories user_categories keeps for customer c
KeptCategories(c) ==
    {uc[2] : uc \in {x \in UserCategories(
                              LookbackTxns(transactions, cand_call.observation_date,
                                           cand_call.lookback_days), items) : x[1] = c}}

\* C15: the categories the category_based strategy keeps for a customer are
\* the customer's 3 most purchased categories of the lookback window: no
\* dropped category has a strictly higher purchase count for the customer
\* than a kept one.
C15_TopPurchasedCategoriesKept ==
    (pc = "candidates" /\ cand_call.strategy = "category_based") =>
        \A c \in Customers : \A kept \in KeptCategories(c) :
            \A dropped \in (1..NumCatItems) \ KeptCategories(c) :
                CategoryPurchases(c, dropped) <= CategoryPurchases(c, kept)

\* how often item i was bought in the lookback window
ItemPurchases(i) ==
    Cardinality({k \in LookbackRows : transactions[k].item_id = i})

\* the rows (category, item_id) of category_popular_items
TakenItems ==
    CategoryPopularItems(LookbackTxns(transactions, cand_call.observation_date,
                                      cand_call.lookback_days),
                         items, cand_call.max_candidates)

\* C16: the items the category_based strategy takes from a category are the
\* max_candidates // 3 most popular items of the category in the lookback
\* window: no item of the category that is left out has a strictly higher
\* purchase count than an item that is taken.
C16_MostPopularItemsTaken ==
    (pc = "candidates" /\ cand_call.strategy = "category_based") =>
        \A taken \in TakenItems :
            \A j \in 1..NumCatItems :
                (CategoryOfItem(j) = taken[1] /\ <<taken[1], j>> \notin TakenItems) =>
                    ItemPurchases(j) <= ItemPurchases(taken[2])

----------------------------------------------------------------------------
(* Claims about the user_history strategy, checked under SpecCand.         *)

\* the distinct items customer c bought in the lookback window of the call
BoughtInLookback(c) ==
    {transactions[k].item_id : k \in {j \in LookbackRows : transactions[j].customer_id = c}}

\* C17: the user_history strategy returns for each customer only items the
\* customer bought with observation_date - lookback_days <= created_at <
\* observation_date, and exactly min(max_candidates, number of such distinct
\* items) of them.
C17_UserHistoryWithinLookback ==
    (pc = "candidates" /\ cand_call.strategy = "user_history") =>
        \A c \in Customers :
            /\ ReturnedItems(c) \subseteq BoughtInLookback(c)
            /\ Cardinality(ReturnedItems(c))
                  = Min(cand_call.max_candidates, Cardinality(BoughtInLookback(c)))

\* C17 witness: a customer bought two distinct items in the lookback window
\* and one is returned under max_candidates = 1, or a customer bought an item
\* in the window and another on the observation date and only the first is
\* returned.
C17_Witness ==
    /\ pc = "candidates" /\ cand_call.strategy = "user_history"
    /\ \E c \in Customers :
          /\ Cardinality(ReturnedItems(c)) = 1
          /\ \/ Cardinality(BoughtInLookback(c)) = 2
             \/ \E k \in DOMAIN transactions :
                   /\ transactions[k].customer_id = c
                   /\ transactions[k].created_date = cand_call.observation_date
                   /\ transactions[k].item_id \notin ReturnedItems(c)

----------------------------------------------------------------------------
(* Specification SpecHybrid: one call of generate_candidates with the      *)
(* hybrid strategy and max_candidates_per_user up to MaxHybridCandidates,  *)
(* so that a third of a third of the budget can be positive.               *)

MaxHybridCandidates == 9

NextHybrid ==
    \E d \in ObservationDates, l \in LookbackChoices, m \in 1..MaxHybridCandidates :
        GenerateCandidates("hybrid", d, l, m)

SpecHybrid == InitCand /\ [][NextHybrid]_vars

\* the three results the hybrid strategy combines, each with the budget
\* max_candidates // 3, top being the popular items that head() came out with
HybridParts(top) ==
    ConcatUnique(
        UserHistoryCandidates(transactions, cand_call.observation_date,
                              cand_call.lookback_days, cand_call.max_candidates \div 3),
        PopularItemCandidates(users, top),
        CategoryBasedCandidates(transactions, items, cand_call.observation_date,
                                cand_call.lookback_days, cand_call.max_candidates \div 3))

----------------------------------------------------------------------------
(* Specification SpecFilter: filter_already_purchased is called on any     *)
(* candidates frame, rows may repeat, and then once more on its result.    *)

MaxCopies == 2

\* the candidates frame in which the pair p occurs f[p] times
FrameOfCopies(f) == [p \in {q \in DOMAIN f : f[q] > 0} |-> f[p]]

InitFilter ==
    /\ pc = "start"
    /\ transactions \in TxnTables
    /\ candidates \in {Some(FrameOfCopies(f)) : f \in [Customers \X Items -> 0..MaxCopies]}
    /\ items = <<>> /\ users = {}
    /\ cand_call = <<>>
    /\ cand_out = EmptyBag
    /\ cooc_out = EmptyBag
    /\ windows = <<>> /\ result = EmptyBag
    /\ other_transactions = <<>> /\ other_result = EmptyBag
    /\ scored = {} /\ top_k = None /\ ranked = <<>>
    /\ NoEvaluation /\ NoScriptRun

FilterAlreadyPurchased(observation_date, lookback_days) ==
    /\ pc = "start"
    /\ cand_out' = filter_already_purchased(candidates[1], transactions,
                                            observation_date, lookback_days)
    /\ cand_call' = [fn |-> "filter_already_purchased",
                     observation_date |-> observation_date,
                     lookback_days |-> lookback_days]
    /\ pc' = "filtered"
    /\ UNCHANGED <<transactions, items, users, cooc_out, featVarsButTables, rankVars, evalVars, scriptVars>>

\* the filter applied to its own result, with the same arguments
FilterAgain ==
    /\ pc = "filtered"
    /\ other_result' = filter_already_purchased(cand_out, transactions,
                                                cand_call.observation_date,
                                                cand_call.lookback_days)
    /\ pc' = "filtered_again"
    /\ UNCHANGED <<transactions, items, users, cand_call, cand_out, cooc_out,
                   windows, candidates, result, other_transactions, rankVars, evalVars, scriptVars>>

NextFilter ==
    \/ \E d \in ObservationDates, l \in LookbackChoices : FilterAlreadyPurchased(d, l)
    \/ FilterAgain

SpecFilter == InitFilter /\ [][NextFilter]_vars

\* how often the pair p occurs in the frame B
CopiesOf(B, p) == IF p \in BagToSet(B) THEN B[p] ELSE 0

\* C19: filter_already_purchased returns exactly the candidate pairs whose
\* customer did not buy the item with observation_date - lookback_days <=
\* created_at < observation_date: no returned pair was bought in that window,
\* every other candidate row is kept as it is, no pair is added, and the
\* filter applied to its result changes nothing.
C19_AntiJoinOnRecentPurchases ==
    /\ pc \in {"filtered", "filtered_again"} =>
          /\ BagToSet(cand_out) \subseteq BagToSet(candidates[1])
          /\ \A p \in BagToSet(candidates[1]) :
                CopiesOf(cand_out, p) = IF p[2] \in BoughtInLookback(p[1])
                                        THEN 0 ELSE candidates[1][p]
    /\ pc = "filtered_again" => other_result = cand_out

\* C19 witness: the filter, applied twice, removed a candidate pair bought in
\* the window and kept a pair that the customer bought outside the window.
C19_Witness ==
    /\ pc = "filtered_again"
    /\ \E p \in BagToSet(candidates[1]) : p \notin BagToSet(other_result)
    /\ \E p \in BagToSet(other_result) :
          \E k \in DOMAIN transactions :
              /\ transactions[k].customer_id = p[1] /\ transactions[k].item_id = p[2]
              /\ k \notin LookbackRows

----------------------------------------------------------------------------
(* Claims about generate_candidates, checked under SpecCand.               *)

CalledGenerateCandidates == pc # "start" /\ cand_call.fn = "generate_candidates"

\* C20: generate_candidates called with a strategy name that is none of
\* user_history, popular_items, category_based and hybrid fails with an error
\* and returns no candidate frame; called with one of the four names it does
\* not fail, and on an empty transactions frame it returns an empty frame.
C20_UnknownStrategyFailsEmptyInputIsEmpty ==
    CalledGenerateCandidates =>
        /\ cand_call.strategy \notin Strategies => (pc = "raised" /\ cand_out = EmptyBag)
        /\ cand_call.strategy \in Strategies => pc = "candidates"
        /\ (cand_call.strategy \in Strategies /\ transactions = <<>>) =>
              cand_out = EmptyBag

\* C20 witness: the popular_items strategy was called with a users frame
\* that has rows and an empty transactions frame, and returned.
C20_Witness ==
    /\ CalledGenerateCandidates
    /\ pc = "candidates"
    /\ cand_call.strategy = "popular_items"
    /\ users # {}
    /\ transactions = <<>>

\* The failing case of C20 happens: an unknown name was given and the call
\* raised.
UnknownStrategyRaised ==
    CalledGenerateCandidates /\ pc = "raised" /\ cand_call.strategy \notin Strategies

----------------------------------------------------------------------------
(* Claims about empty windows, checked under SpecFeat.                     *)

NoHistoricalTransaction == \A c \in Customers : HistRowsOf(c) = {}
NoLabelTransaction == \A c \in Customers, i \in Items : ~BoughtInLabelWindow(c, i)

\* C21: build_feature_label_table returns on an empty window: when no
\* transaction falls in the historical window every output row has X1..X13 =
\* 0, and when no transaction falls in the label window every output row has
\* Y = 0.
C21_EmptyWindowsGiveZeros ==
    pc = "built" =>
        /\ NoHistoricalTransaction => \A r \in ResultRows : AllFeaturesZero(r)
        /\ NoLabelTransaction => \A r \in ResultRows : r.Y = 0

\* C21 witness: the call returned rows for supplied candidates although the
\* transactions frame has rows and none of them is in the historical window
\* nor in the label window.
C21_Witness ==
    /\ pc = "built"
    /\ transactions # <<>>
    /\ NoHistoricalTransaction /\ NoLabelTransaction
    /\ \E r \in ResultRows : AllFeaturesZero(r) /\ r.Y = 0

----------------------------------------------------------------------------
(* metrics.py: evaluate_recommendations and its four metrics; train.py:    *)
(* evaluate_ranking.  A metric is a float, kept exact as a fraction.       *)

MaxGroundTruth == 3

\* The sum of two floats.
FracAdd(a, b) == Frac(a[1] * b[2] + b[1] * a[2], a[2] * b[2])

RECURSIVE FracSum(_, _)
\* sum of the floats f[x] over the finite set S
FracSum(S, f) ==
    IF S = {} THEN <<0, 1>>
    ELSE LET x == CHOOSE y \in S : TRUE IN FracAdd(f[x], FracSum(S \ {x}, f))

\* float(np.mean(values)) if values else 0.0, for the list of the f[c], c in S.
MeanOrZero(S, f) ==
    IF S = {} THEN <<0, 1>>
    ELSE LET s == FracSum(S, f) IN Frac(s[1], s[2] * Cardinality(S))

\* 1.0 / np.log2(pos + 1) of the 1-based position pos, in hundredths.
Discount(pos) ==
    CASE pos = 1 -> 100
      [] pos = 2 -> 63
      [] pos = 3 -> 50
      [] pos = 4 -> 43
      [] OTHER -> 39

\* group_by(user_col).agg(item.head(k)) of the sorted frame s, for customer
\* c: the items of the first k rows of the customer, in the order of s.
PredictedItems(s, c, k) ==
    LET Mine(r) == r.customer_id = c
        mine == SelectSeq(s, Mine)
    IN  [i \in 1..Min(k, Len(mine)) |-> mine[i].item_id]

\* set(row["actual_items"]) of customer c.
ActualItems(gt, c) == {p[2] : p \in {q \in BagToSet(gt) : q[1] = c}}

\* The customers of top_k_preds.join(actual, on=user_col, how="inner").
JoinedCustomers(s, gt) ==
    {s[i].customer_id : i \in DOMAIN s} \cap {p[1] : p \in BagToSet(gt)}

\* len(predicted_set & actual_set)
Hits(predicted, actual) ==
    Cardinality({predicted[i] : i \in DOMAIN predicted} \cap actual)

\* A mutant of PrecisionOf: the divisor is the number of predicted items.
PrecisionOverListLength(predicted, actual, k) ==
    IF Len(predicted) > 0 THEN Frac(Hits(predicted, actual), Len(predicted))
    ELSE <<0, 1>>

\* precision = hits / k if k > 0 else 0.0
PrecisionOf(predicted, actual, k) ==
    IF k > 0 THEN Frac(Hits(predicted, actual), k) ELSE <<0, 1>>

\* recall = hits / total_relevant if total_relevant > 0 else 0.0
RecallOf(predicted, actual) ==
    IF Cardinality(actual) > 0 THEN Frac(Hits(predicted, actual), Cardinality(actual))
    ELSE <<0, 1>>

\* The 1-based positions of predicted_list[:k] whose item is in actual_set.
HitPositions(predicted, actual) == {i \in DOMAIN predicted : predicted[i] \in actual}

\* ndcg = dcg / idcg if idcg > 0 else 0.0
NdcgOf(predicted, actual, k) ==
    LET dcg == SumOver(HitPositions(predicted, actual), [i \in DOMAIN predicted |-> Discount(i)])
        num_relevant == Min(Cardinality(actual), k)
        idcg == SumOver(1..num_relevant, [i \in 1..num_relevant |-> Discount(i)])
    IN  IF idcg > 0 THEN Frac(dcg, idcg) ELSE <<0, 1>>

\* ap = precision_sum / min(len(actual_set), k), where precision_sum adds
\* hits / (i + 1) at every hit, hits being the hits so far.
AveragePrecisionOf(predicted, actual, k) ==
    LET H == HitPositions(predicted, actual)
        precision_at_i == [i \in H |-> Frac(Cardinality({j \in H : j <= i}), i)]
        precision_sum == FracSum(H, precision_at_i)
    IN  Frac(precision_sum[1], precision_sum[2] * Min(Cardinality(actual), k))

\* The four metrics, for the frame s that predictions.sort(...) returned.
precision_at_k(s, gt, k) ==
    LET joined == JoinedCustomers(s, gt)
    IN  MeanOrZero(joined, [c \in joined |->
            PrecisionOf(PredictedItems(s, c, k), ActualItems(gt, c), k)])

recall_at_k(s, gt, k) ==
    LET joined == JoinedCustomers(s, gt)
    IN  MeanOrZero(joined, [c \in joined |->
            RecallOf(PredictedItems(s, c, k), ActualItems(gt, c))])

ndcg_at_k(s, gt, k) ==
    LET joined == JoinedCustomers(s, gt)
    IN  MeanOrZero(joined, [c \in joined |->
            NdcgOf(PredictedItems(s, c, k), ActualItems(gt, c), k)])

mean_average_precision_at_k(s, gt, k) ==
    LET joined == JoinedCustomers(s, gt)
    IN  MeanOrZero(joined, [c \in joined |->
            AveragePrecisionOf(PredictedItems(s, c, k), ActualItems(gt, c), k)])

\* k_values of both evaluators.
EvalKs == 1..MaxTopK

\* The results evaluate_recommendations can return: each metric sorts the
\* predictions again, and the sort is free in the order of tied rows.
evaluate_recommendations(predictions, gt) ==
    LET sorts == [EvalKs -> SortByUserScore(predictions)]
        precisions == {[k \in EvalKs |-> precision_at_k(s[k], gt, k)] : s \in sorts}
        recalls == {[k \in EvalKs |-> recall_at_k(s[k], gt, k)] : s \in sorts}
        ndcgs == {[k \in EvalKs |-> ndcg_at_k(s[k], gt, k)] : s \in sorts}
        maps == {[k \in EvalKs |-> mean_average_precision_at_k(s[k], gt, k)] : s \in sorts}
    IN  {[precision |-> p, recall |-> r, ndcg |-> n, map |-> m] :
            p \in precisions, r \in recalls, n \in ndcgs, m \in maps}

\* train.py, evaluate_ranking.
\* top_k = predictions.filter(pl.col("rank") <= k)
TopKRows(predictions, k) == {r \in predictions : r.rank <= k}

\* hits = top_k.join(positives, on=[user_col, item_col], how="inner"), of
\* customer c; positives are the unique pairs of the ground truth.
HitRows(predictions, gt, c, k) ==
    {r \in TopKRows(predictions, k) :
        r.customer_id = c /\ <<r.customer_id, r.item_id>> \in BagToSet(gt)}

\* all_customers = top_k.select(user_col).unique()
AllCustomers(predictions, k) == {r.customer_id : r \in TopKRows(predictions, k)}

\* precision_df["precision"].mean(): num_hits.fill_null(0) / k per customer
\* of all_customers.
RankingPrecision(predictions, gt, k) ==
    LET all == AllCustomers(predictions, k)
    IN  MeanOrZero(all, [c \in all |->
            Frac(Cardinality(HitRows(predictions, gt, c, k)), k)])

\* np.mean(np.where(idcg > 0, dcg / idcg, 0.0)): the DCG adds the discount of
\* the rank of every hit, the IDCG those of ranks 1..min(num_positives, k).
RankingNdcg(predictions, gt, k) ==
    LET all == AllCustomers(predictions, k)
        Dcg(c) == LET hits == HitRows(predictions, gt, c, k)
                  IN  SumOver(hits, [r \in hits |-> Discount(r.rank)])
        Idcg(c) == LET relevant == Min(Cardinality(ActualItems(gt, c)), k)
                   IN  SumOver(1..relevant, [i \in 1..relevant |-> Discount(i)])
    IN  MeanOrZero(all, [c \in all |->
            IF Idcg(c) > 0 THEN Frac(Dcg(c), Idcg(c)) ELSE <<0, 1>>])

\* float(precision_df["precision"].mean()) raises TypeError when top_k has
\* no row: the mean of an empty column is None.
RankingRaises(predictions) == \E k \in EvalKs : AllCustomers(predictions, k) = {}

evaluate_ranking(predictions, gt) ==
    [precision |-> [k \in EvalKs |-> RankingPrecision(predictions, gt, k)],
     ndcg |-> [k \in EvalKs |-> RankingNdcg(predictions, gt, k)]]

----------------------------------------------------------------------------
(* Specification SpecEval: predict_and_rank on any scored frame, then      *)
(* evaluate_recommendations and evaluate_ranking on its output and any     *)
(* ground truth frame.                                                     *)

\* The ground truth frames: at most MaxGroundTruth rows, a pair may repeat.
GroundTruthFrames ==
    {B \in [Customers \X Items -> 0..MaxCopies] :
        SumOver(Customers \X Items, B) <= MaxGroundTruth}

InitEval ==
    /\ pc = "start"
    /\ scored \in ScoredFrames
    /\ top_k = None
    /\ ranked = <<>>
    /\ \E B \in GroundTruthFrames :
          ground_truth = [p \in {q \in DOMAIN B : B[q] > 0} |-> B[p]]
    /\ metrics = <<>>
    /\ NoScriptRun
    /\ NoFeatureCall
    /\ NoCandidateCall

EvaluateRecommendations ==
    /\ pc = "ranked"
    /\ \E out \in evaluate_recommendations(RowsOfSeq(ranked), ground_truth) :
          metrics' = [recommendations |-> out]
    /\ pc' = "evaluated"
    /\ UNCHANGED <<rankVars, ground_truth, featVars, candVars, scriptVars>>

EvaluateRanking ==
    /\ pc = "evaluated"
    /\ ~RankingRaises(RowsOfSeq(ranked))
    /\ metrics' = [recommendations |-> metrics.recommendations,
                   ranking |-> evaluate_ranking(RowsOfSeq(ranked), ground_truth)]
    /\ pc' = "done"
    /\ UNCHANGED <<rankVars, ground_truth, featVars, candVars, scriptVars>>

EvaluateRankingRaises ==
    /\ pc = "evaluated"
    /\ RankingRaises(RowsOfSeq(ranked))
    /\ pc' = "raised"
    /\ UNCHANGED <<rankVars, evalVars, featVars, candVars, scriptVars>>

NextEval ==
    \/ \E k \in TopKChoices : PredictAndRank(k)
    \/ EvaluateRecommendations
    \/ EvaluateRanking
    \/ EvaluateRankingRaises

SpecEval == InitEval /\ [][NextEval]_vars

\* The customers that have at least one prediction row.
PredictionCustomers == {r.customer_id : r \in RowsOfSeq(ranked)}

\* The unweighted mean of the per-customer values f[c] over all customers
\* that have at least one prediction row.
MeanOverPredictionCustomers(f) ==
    LET s == FracSum(PredictionCustomers, f)
    IN  Frac(s[1], s[2] * Cardinality(PredictionCustomers))

\* C22: every metric returned by evaluate_recommendations (precision, recall,
\* NDCG, MAP at each K) and by evaluate_ranking is the unweighted mean over
\* all customers that have at least one prediction row, a customer with
\* predictions and no ground-truth purchase counting with the value 0.
C22_MeanOverAllPredictionCustomers ==
    (pc \in {"evaluated", "done"} /\ PredictionCustomers # {}) =>
        LET preds == RowsOfSeq(ranked)
            Actual(c) == ActualItems(ground_truth, c)
            rec == metrics.recommendations
        IN  /\ \A k \in EvalKs :
                /\ \E s \in SortByUserScore(preds) :
                      rec.precision[k] = MeanOverPredictionCustomers(
                          [c \in PredictionCustomers |->
                              PrecisionOf(PredictedItems(s, c, k), Actual(c), k)])
                /\ \E s \in SortByUserScore(preds) :
                      rec.recall[k] = MeanOverPredictionCustomers(
                          [c \in PredictionCustomers |->
                              RecallOf(PredictedItems(s, c, k), Actual(c))])
                /\ \E s \in SortByUserScore(preds) :
                      rec.ndcg[k] = MeanOverPredictionCustomers(
                          [c \in PredictionCustomers |->
                              NdcgOf(PredictedItems(s, c, k), Actual(c), k)])
                /\ \E s \in SortByUserScore(preds) :
                      rec.map[k] = MeanOverPredictionCustomers(
                          [c \in PredictionCustomers |->
                              IF Actual(c) = {} THEN <<0, 1>>
                              ELSE AveragePrecisionOf(PredictedItems(s, c, k), Actual(c), k)])
            /\ pc = "done" =>
                \A k \in EvalKs :
                    metrics.ranking.precision[k] = MeanOverPredictionCustomers(
                        [c \in PredictionCustomers |->
                            Frac(Cardinality(HitRows(preds, ground_truth, c, k)), k)])

\* The part of C22 about evaluate_ranking alone (supporting, holds).
RankingMeanOverAllPredictionCustomers ==
    (pc = "done" /\ PredictionCustomers # {}) =>
        \A k \in EvalKs :
            metrics.ranking.precision[k] = MeanOverPredictionCustomers(
                [c \in PredictionCustomers |->
                    Frac(Cardinality(HitRows(RowsOfSeq(ranked), ground_truth, c, k)), k)])

\* The possible sets of the k highest-scoring rows of a set of rows.
HighestScoring(rows, k) ==
    {T \in SUBSET rows :
        /\ Cardinality(T) = Min(k, Cardinality(rows))
        /\ \A r \in T, q \in rows \ T : r.score >= q.score}

\* The number of distinct items of the rows T that are in the ground truth
\* of customer c.
HitsAmong(T, c) == Cardinality({r.item_id : r \in T} \cap ActualItems(ground_truth, c))

\* C23: for one customer (predictions of one customer, who has ground truth),
\* precision_at_k is hits / K and recall_at_k is hits / (number of distinct
\* ground-truth items), hits being the number of distinct items among the
\* customer's K highest-scoring predictions that are in the ground truth; the
\* precision divisor is K also when the customer has fewer than K predictions.
C23_PrecisionAndRecallOfOneCustomer ==
    pc \in {"evaluated", "done"} =>
        \A c \in Customers :
            (PredictionCustomers = {c} /\ ActualItems(ground_truth, c) # {}) =>
                \A k \in EvalKs :
                    /\ \E T \in HighestScoring(RowsOfSeq(ranked), k) :
                          metrics.recommendations.precision[k] = Frac(HitsAmong(T, c), k)
                    /\ \E T \in HighestScoring(RowsOfSeq(ranked), k) :
                          metrics.recommendations.recall[k] =
                              Frac(HitsAmong(T, c), Cardinality(ActualItems(ground_truth, c)))

\* Customer 1 has one prediction, fewer than K = 2, which is one of the two
\* distinct ground-truth items, one of them listed twice: 1/2 and 1/2.
C23_Witness ==
    /\ pc = "evaluated"
    /\ PredictionCustomers = {1}
    /\ Len(ranked) = 1 /\ ranked[1].item_id = 1
    /\ ActualItems(ground_truth, 1) = {1, 2}
    /\ \E p \in BagToSet(ground_truth) : ground_truth[p] = 2
    /\ metrics.recommendations.precision[2] = <<1, 2>>
    /\ metrics.recommendations.recall[2] = <<1, 2>>

\* C29: on predictions produced by predict_and_rank without top_k and any
\* ground truth, the precision@K of evaluate_ranking equals the precision@K
\* of precision_at_k, for every K.
C29_RankingPrecisionEqualsPrecisionAtK ==
    (pc = "done" /\ top_k = None) =>
        \A k \in EvalKs :
            metrics.ranking.precision[k] = metrics.recommendations.precision[k]

----------------------------------------------------------------------------
(* The pipeline scripts run_recommender.py, scripts/train_all_models.py    *)
(* and lightgbm_with_newgroundtruth.py: realization of the feature table,  *)
(* the feature cache and the timestamped output files.                     *)

NumRuns == 2
MaxTicks == 2
TicksPerSecond == 2
MaxDataVersion == 1

RunIds == 1..NumRuns

Scripts == {"run_recommender", "train_all_models", "lightgbm_with_newgroundtruth"}

\* models_to_train of train_all_models.py
models_to_train == <<"logistic", "lightgbm", "xgboost", "random_forest">>

\* datetime.now().strftime("%Y%m%d_%H%M%S"): the clock cut to whole seconds.
Timestamp(t) == t \div TicksPerSecond

\* features_cache = "outputs/temp/features_cache.parquet"
features_cache == <<"features_cache", "", 0>>

\* The paths f"outputs/.../<kind>_<name>_{timestamp}" one save writes.
OutputPaths(kinds, name, timestamp) == {<<kind, name, timestamp>> : kind \in kinds}

\* A process that has not started a script.
IdleRun ==
    [script |-> "", pc |-> "idle", inputs |-> 0, features |-> None,
     streaming |-> "none", warned |-> FALSE, in_memory_attempts |-> 0, next |-> 1]

\* The files after run r wrote the paths P, with content made from version v
\* of the inputs: a file that exists is overwritten.
WriteFiles(P, r, v) == [p \in P |-> [by |-> r, from |-> v]] @@ files

\* A script starts: it reads the input tables and windows as they are now.
\* train_all_models.py first looks for the feature cache, the others build.
StartRun(r, s) ==
    /\ runs[r].pc = "idle"
    /\ runs' = [runs EXCEPT ![r] = [@ EXCEPT !.script = s, !.inputs = data,
                    !.pc = IF s = "train_all_models" THEN "check_cache" ELSE "build"]]
    /\ UNCHANGED <<rankVars, evalVars, featVars, candVars, pc, clock, files, data>>

\* train_all_models.py: if os.path.exists(features_cache): read it, else build.
CheckCache(r) ==
    /\ runs[r].pc = "check_cache"
    /\ runs' = [runs EXCEPT ![r] =
                    IF features_cache \in DOMAIN files
                    THEN [@ EXCEPT !.features = Some(files[features_cache].from),
                                   !.pc = "collected"]
                    ELSE [@ EXCEPT !.pc = "build"]]
    /\ UNCHANGED <<rankVars, evalVars, featVars, candVars, pc, clock, files, data>>

\* features_lazy.collect(streaming=True) succeeds or raises.  Only
\* run_recommender.py wraps it in try/except, prints a warning and goes on
\* to collect(); in the other two scripts the exception ends the run.
CollectStreaming(r) ==
    /\ runs[r].pc = "build"
    /\ \E ok \in BOOLEAN :
          runs' = [runs EXCEPT ![r] =
              IF ok
              THEN [@ EXCEPT !.streaming = "ok", !.features = Some(runs[r].inputs),
                       !.pc = IF runs[r].script = "train_all_models" THEN "write_cache"
                              ELSE "collected"]
              ELSE IF runs[r].script = "run_recommender"
                   THEN [@ EXCEPT !.streaming = "failed", !.warned = TRUE,
                                  !.pc = "fallback"]
                   ELSE [@ EXCEPT !.streaming = "failed", !.pc = "crashed"]]
    /\ UNCHANGED <<rankVars, evalVars, featVars, candVars, pc, clock, files, data>>

\* run_recommender.py, the except branch: features_lazy.collect(), once; an
\* exception of this call is not caught.
CollectInMemory(r) ==
    /\ runs[r].pc = "fallback"
    /\ \E ok \in BOOLEAN :
          runs' = [runs EXCEPT ![r] =
              IF ok
              THEN [@ EXCEPT !.in_memory_attempts = @ + 1,
                             !.features = Some(runs[r].inputs), !.pc = "collected"]
              ELSE [@ EXCEPT !.in_memory_attempts = @ + 1, !.pc = "crashed"]]
    /\ UNCHANGED <<rankVars, evalVars, featVars, candVars, pc, clock, files, data>>

\* train_all_models.py: features.write_parquet(features_cache)
WriteCache(r) ==
    /\ runs[r].pc = "write_cache"
    /\ files' = WriteFiles({features_cache}, r, runs[r].features[1])
    /\ runs' = [runs EXCEPT ![r].pc = "collected"]
    /\ UNCHANGED <<rankVars, evalVars, featVars, candVars, pc, clock, data>>

\* run_recommender.py: train, predict, evaluate, take the timestamp and write
\* the model, the predictions and the metrics.
SaveOutputs(r) ==
    /\ runs[r].pc = "collected"
    /\ runs[r].script = "run_recommender"
    /\ files' = WriteFiles(OutputPaths({"model", "predictions", "metrics"}, "",
                                       Timestamp(clock)), r, runs[r].features[1])
    /\ runs' = [runs EXCEPT ![r].pc = "done"]
    /\ UNCHANGED <<rankVars, evalVars, featVars, candVars, pc, clock, data>>

\* lightgbm_with_newgroundtruth.py: predict with the loaded model, take the
\* timestamp and write the predictions and the metrics.
SaveNewGroundtruthOutputs(r) ==
    /\ runs[r].pc = "collected"
    /\ runs[r].script = "lightgbm_with_newgroundtruth"
    /\ files' = WriteFiles(OutputPaths({"predictions", "metrics"}, "new_groundtruth",
                                       Timestamp(clock)), r, runs[r].features[1])
    /\ runs' = [runs EXCEPT ![r].pc = "done"]
    /\ UNCHANGED <<rankVars, evalVars, featVars, candVars, pc, clock, data>>

\* train_all_models.py, one turn of the loop over models_to_train: train,
\* predict, evaluate, take the timestamp and write the three files of the
\* model type; an exception in the turn is caught and the loop goes on.
TrainNextModel(r) ==
    /\ runs[r].pc = "collected"
    /\ runs[r].script = "train_all_models"
    /\ \E ok \in BOOLEAN :
          files' = IF ok
                   THEN WriteFiles(OutputPaths({"model", "predictions", "metrics"},
                                               models_to_train[runs[r].next],
                                               Timestamp(clock)), r, runs[r].features[1])
                   ELSE files
    /\ runs' = [runs EXCEPT ![r] =
                    [@ EXCEPT !.next = @ + 1,
                              !.pc = IF runs[r].next = Len(models_to_train)
                                     THEN "done" ELSE "collected"]]
    /\ UNCHANGED <<rankVars, evalVars, featVars, candVars, pc, clock, data>>

\* Time passes.
Tick ==
    /\ clock < MaxTicks
    /\ clock' = clock + 1
    /\ UNCHANGED <<rankVars, evalVars, featVars, candVars, pc, runs, files, data>>

\* Between runs the input tables or the windows of the script change.
ChangeData ==
    /\ data < MaxDataVersion
    /\ \A r \in RunIds : runs[r].pc \in {"idle", "done", "crashed"}
    /\ data' = data + 1
    /\ UNCHANGED <<rankVars, evalVars, featVars, candVars, pc, runs, clock, files>>

InitScripts ==
    /\ pc = "scripts"
    /\ runs = [r \in RunIds |-> IdleRun]
    /\ clock = 0
    /\ files = <<>>
    /\ data = 0
    /\ scored = {} /\ top_k = None /\ ranked = <<>>
    /\ NoEvaluation
    /\ NoFeatureCall
    /\ NoCandidateCall

NextScripts ==
    \/ \E r \in RunIds, s \in Scripts : StartRun(r, s)
    \/ \E r \in RunIds : CheckCache(r)
    \/ \E r \in RunIds : CollectStreaming(r)
    \/ \E r \in RunIds : CollectInMemory(r)
    \/ \E r \in RunIds : WriteCache(r)
    \/ \E r \in RunIds : SaveOutputs(r)
    \/ \E r \in RunIds : SaveNewGroundtruthOutputs(r)
    \/ \E r \in RunIds : TrainNextModel(r)
    \/ Tick
    \/ ChangeData

SpecScripts == InitScripts /\ [][NextScripts]_vars

\* C24: in each of the three scripts a failure of the streaming realization
\* leads to a warning and exactly one in-memory realization attempt instead
\* of a crash; if that attempt succeeds the run goes on with the complete
\* feature table, if it fails the run aborts without a further retry.
C24_StreamingFailureFallsBackOnce ==
    pc = "scripts" =>
        \A r \in RunIds :
            /\ runs[r].in_memory_attempts <= 1
            /\ runs[r].streaming = "failed" =>
                  /\ runs[r].warned
                  /\ runs[r].pc = "crashed" => runs[r].in_memory_attempts = 1
                  /\ runs[r].pc \in {"collected", "done"} =>
                        /\ runs[r].in_memory_attempts = 1
                        /\ runs[r].features = Some(runs[r].inputs)

\* The same for run_recommender.py alone (supporting, holds).
RunRecommenderFallsBackOnce ==
    pc = "scripts" =>
        \A r \in RunIds :
            (runs[r].script = "run_recommender" /\ runs[r].streaming = "failed") =>
                /\ runs[r].warned
                /\ runs[r].in_memory_attempts <= 1
                /\ runs[r].pc = "crashed" => runs[r].in_memory_attempts = 1
                /\ runs[r].pc \in {"collected", "done"} =>
                      /\ runs[r].in_memory_attempts = 1
                      /\ runs[r].features = Some(runs[r].inputs)

\* C25: for any two runs of the training pipeline, however close in time, the
\* model, predictions and metrics files written by one run are never
\* overwritten by the other.
C25_RunsNeverOverwriteEachOther ==
    [][\A p \in DOMAIN files :
          p[1] \in {"model", "predictions", "metrics"} => files'[p].by = files[p].by]_vars

\* C28: train_all_models.py trains on a feature table built for the windows
\* and input tables of the current run; a cached table is reused only if it
\* was produced from the same windows and inputs.
C28_CachedFeaturesAreOfThisRun ==
    pc = "scripts" =>
        \A r \in RunIds :
            (runs[r].script = "train_all_models" /\ runs[r].features # None) =>
                runs[r].features = Some(runs[r].inputs)

----------------------------------------------------------------------------
(* Idempotence of the feature builder, checked under SpecTwoBuilds.        *)

\* C26: build_feature_label_table called twice with identical transactions,
\* items, windows and supplied candidates returns the same multiset of rows
\* (same pairs, same X1..X13, same Y), also when a customer has two weekdays
\* or two brands tied for the highest historical purchase count.
C26_TwoBuildsSameRows ==
    (pc = "built_again" /\ other_transactions = transactions) =>
        other_result = result

----------------------------------------------------------------------------
(* The candidate-level features, checked under SpecFeat.                   *)

\* The number of historical-window transactions of customer c whose item has
\* the same value of attribute a as item i, a missing value being the same
\* as a missing value.
SameAttributePurchases(c, i, a) ==
    Cardinality({k \in HistRowsOf(c) :
        AttrOf(items, transactions[k].item_id, a) = AttrOf(items, i, a)})

\* C27: on every output row X1, X2 and X3 equal the number of historical
\* transactions of the row's customer whose item has the same brand,
\* age_group and category as the candidate item, repeated purchases counted
\* separately, also for candidate and purchased items whose attribute is
\* missing.
C27_AttributeCountsIncludeMissing ==
    pc = "built" =>
        \A r \in ResultRows :
            /\ r.X1 = SameAttributePurchases(r.customer_id, r.item_id, "brand")
            /\ r.X2 = SameAttributePurchases(r.customer_id, r.item_id, "age_group")
            /\ r.X3 = SameAttributePurchases(r.customer_id, r.item_id, "category")

\* What the code keeps of C27 (supporting, holds): the count for a candidate
\* item whose attribute has a value, and 0 for one whose attribute is missing.
AttributeCountsOfKnownAttributes ==
    pc = "built" =>
        \A r \in ResultRows :
            LET Expected(a) == IF AttrOf(items, r.item_id, a) = Null THEN 0
                               ELSE SameAttributePurchases(r.customer_id, r.item_id, a)
            IN  /\ r.X1 = Expected("brand")
                /\ r.X2 = Expected("age_group")
                /\ r.X3 = Expected("category")

----------------------------------------------------------------------------
(* Specification SpecNonNull: one call of the default candidate            *)
(* construction of the feature builder, or of the category_based strategy, *)
(* on any transactions frame and items frame; the returned frame is kept   *)
(* with its nullable columns.                                              *)

InitNonNull ==
    /\ pc = "start"
    /\ transactions \in TxnTables
    /\ items \in CategoryTables
    /\ windows \in WindowChoices
    /\ users = {}
    /\ cand_call = <<>>
    /\ cand_out = EmptyBag
    /\ cooc_out = EmptyBag
    /\ candidates = None /\ result = EmptyBag
    /\ other_transactions = <<>> /\ other_result = EmptyBag
    /\ scored = {} /\ top_k = None /\ ranked = <<>>
    /\ NoEvaluation /\ NoScriptRun

\* build_feature_label_table without candidates: hist and recent are the
\* transactions of the two windows.
DefaultCandidateConstruction ==
    /\ pc = "start"
    /\ \E top \in TopItemsChoices(HistTxns(transactions, windows), TopPopularItems) :
          cand_out' = DefaultCandidateRows(HistTxns(transactions, windows),
                                           RecentTxns(transactions, windows), items, top)
    /\ cand_call' = CandCall("_generate_candidates_for_features", "default", 0, 0, 0, NoCooc)
    /\ pc' = "candidates"
    /\ UNCHANGED <<transactions, items, windows, users, cooc_out, candidates, result,
                   other_transactions, other_result, rankVars, evalVars, scriptVars>>

GenerateCategoryBased(observation_date, lookback_days, max_candidates) ==
    /\ pc = "start"
    /\ cand_out' = CategoryBasedCandidateRows(transactions, items, observation_date,
                                              lookback_days, max_candidates)
    /\ cand_call' = CandCall("generate_candidates", "category_based", observation_date,
                             lookback_days, max_candidates, NoCooc)
    /\ pc' = "candidates"
    /\ UNCHANGED <<transactions, items, windows, users, cooc_out, candidates, result,
                   other_transactions, other_result, rankVars, evalVars, scriptVars>>

NextNonNull ==
    \/ DefaultCandidateConstruction
    \/ \E d \in ObservationDates, l \in LookbackChoices, m \in 1..MaxCandidates :
          GenerateCategoryBased(d, l, m)

SpecNonNull == InitNonNull /\ [][NextNonNull]_vars

CategoryBasedNullJoinRow ==
    /\ pc = "candidates"
    /\ cand_call.strategy = "category_based"
    /\ NullItemRows(CategoryBasedJoinRows(
            LookbackTxns(transactions, cand_call.observation_date, cand_call.lookback_days),
            items, cand_call.max_candidates)) # {}

====
